---- MODULE Spec2Model ----
(***************************************************************************)
(* State-machine model of the Li.Fi swap scripts.                          *)
(*                                                                         *)
(*   script = "swap"   test-swap.js: prompts, route check, quote, operator *)
(*                     confirmation, executeSwap, analyzeTransaction       *)
(*   script = "tx"     the test-transaction script (balance, quote,        *)
(*                     verify, confirmation, single-shot submit)           *)
(*   script = "quote"  test-quote.js: route check, then quote regardless   *)
(*   script = "info"   test-transaction-info.js: one explorer lookup       *)
(*   script = "bridge" the bridge script: quote, submit, status polling    *)
(*   script = "scenarios"  the scenarios script: runTests over the list of *)
(*                     test scenarios                                      *)
(*                                                                         *)
(* Each script starts with its module code (pc = "init"): the environment  *)
(* tests and the wallet, which end the process or let run() start.         *)
(*                                                                         *)
(* Every await of the scripts is one step: the action takes the answer of  *)
(* the outside world (operator, provider, RPC node, explorer) from a small *)
(* set and runs the code up to the next await.  `calls` is the history of  *)
(* everything the process did to the outside world, `log` the set of lines *)
(* written with writeToLog.                                                *)
(***************************************************************************)
EXTENDS Integers, Sequences, FiniteSets, TLC

VARIABLES
    script,       \* which script this process runs
    env,          \* process.env: what SOL_SECRET and LI_FI_API hold
    pc,           \* position of run(): the await it is suspended at
    calls,        \* history of external effects: <<[op, arg, res], ...>>
    log,          \* set of lines written by writeToLog
    input,        \* operator's answers to the parameter prompts
    params,       \* run's params object (UNSET until built)
    hasConnection,\* run's hasConnection: <<>> until checkConnection returned, then <<b>>
    quote,        \* the quote returned by getQuote (UNSET until then)
    retries,      \* executeSwap's retry counter
    blockhash,    \* executeSwap's blockhash variable (NONE = undefined)
    transaction,  \* the VersionedTransaction object (UNSET until deserialized)
    signature,    \* executeSwap's signature variable (UNSET = undefined)
    accepted,     \* how many times the network accepted the signed bytes
    height,       \* value returned by getBlockHeight (0 until read)
    submitHeight, \* the network's block height when executeSwap last broadcast
    swapResult,   \* how executeSwap ended: [outcome, value]
    error,        \* the error caught by run's catch (NoError if none)
    rlClosed      \* rl.close() has run

vars == <<script, env, pc, calls, log, input, params, hasConnection, quote, retries, blockhash,
          transaction, signature, accepted, height, submitHeight, swapResult, error,
          rlClosed>>

NONE == "none"

\* a variable that holds an object (a record or a tuple of the model) before it
\* is assigned: undefined
UNSET == <<>>

-----------------------------------------------------------------------------
(* Bounds of the model and constants of the program *)

\* largest block height the RPC node reports
MaxHeight == 1

\* let retries = 3 (blockhash loop)
BlockhashRetries == 3

\* retries = 3 (broadcast loop)
SendRetries == 3

\* lastValidBlockHeight: (await connection.getBlockHeight()) + 150
ExpiryMargin == 150

\* const amountToSwap = 10000000 (test-transaction script)
amountToSwap == 10000000

\* largest amount and largest number of decimals formatAmount is applied to
MaxAmount == 12

MaxDecimals == 2

\* most status polls of one run of the bridge script that the model follows
\* (the script itself counts nothing)
MaxPolls == 3

-----------------------------------------------------------------------------
(* Generic helpers *)

Event(op, arg, res) == [op |-> op, arg |-> arg, res |-> res]

Ops(op) == {i \in DOMAIN calls : calls[i].op = op}

Count(op) == Cardinality(Ops(op))

\* a normal return / a thrown exception of a function call
Return(v, lines) == [outcome |-> "return", value |-> v, lines |-> lines]

Throw(e, lines) == [outcome |-> "throw", value |-> e, lines |-> lines]

\* an Error object: its message, and what the message carries
Err(msg, detail) == [msg |-> msg, detail |-> detail]

\* no error was caught
NoError == Err(NONE, NONE)

-----------------------------------------------------------------------------
(* Pure helpers of test-swap.js *)

Digits == {"0", "1", "2", "3", "4", "5", "6", "7", "8", "9"}

\* the text from position i on
Tail_(s, i) == SubSeq(s, i, Len(s))

IsDigits(s) == Len(s) > 0 /\ \A i \in DOMAIN s : s[i] \in Digits

\* position of the first occurrence of a character of cs in s, 0 if none
FirstOf(s, cs) ==
    IF \E i \in DOMAIN s : s[i] \in cs
    THEN CHOOSE i \in DOMAIN s : s[i] \in cs /\ \A j \in 1..(i - 1) : s[j] \notin cs
    ELSE 0

\* formatAmountToSmallestUnit: amount.replace(/^0+/, ''), '' becomes '0'
formatAmountToSmallestUnit(amount) ==
    LET stripped ==
            IF \A i \in DOMAIN amount : amount[i] = "0" THEN <<>>
            ELSE Tail_(amount, CHOOSE i \in DOMAIN amount :
                                 amount[i] # "0" /\ \A j \in 1..(i - 1) : amount[j] = "0")
    IN  IF stripped = <<>> THEN <<"0">> ELSE stripped

\* the unsigned decimal mantissa of a JS numeric string: d+[.d*] or .d+
IsMantissa(s) ==
    LET dot == FirstOf(s, {"."})
    IN  IF dot = 0 THEN IsDigits(s)
        ELSE LET ip == SubSeq(s, 1, dot - 1)
                 fp == Tail_(s, dot + 1)
             IN  /\ (ip = <<>> \/ IsDigits(ip))
                 /\ (fp = <<>> \/ IsDigits(fp))
                 /\ ~(ip = <<>> /\ fp = <<>>)

IsExponent(s) ==
    IF Len(s) > 0 /\ s[1] \in {"+", "-"} THEN IsDigits(Tail_(s, 2)) ELSE IsDigits(s)

Unsigned(s) == IF Len(s) > 0 /\ s[1] \in {"+", "-"} THEN Tail_(s, 2) ELSE s

MantissaOf(s) ==
    LET u == Unsigned(s)
        e == FirstOf(u, {"e"})
    IN  IF e = 0 THEN u ELSE SubSeq(u, 1, e - 1)

\* isNaN(Number(s)) for a trimmed string s (decimal literals; '' is 0)
NumberIsNaN(s) ==
    LET u == Unsigned(s)
        e == FirstOf(u, {"e"})
    IN  IF s = <<>> THEN FALSE
        ELSE IF e = 0 THEN ~IsMantissa(u)
        ELSE ~(IsMantissa(SubSeq(u, 1, e - 1)) /\ IsExponent(Tail_(u, e + 1)))

\* Number(s) > 0 for a string that is a number
NumberIsPositive(s) ==
    /\ ~NumberIsNaN(s)
    /\ s # <<>>
    /\ s[1] # "-"
    /\ \E i \in DOMAIN MantissaOf(s) : MantissaOf(s)[i] \in (Digits \ {"0"})

\* isValidEthereumAddress: /^0x[a-fA-F0-9]{40}$/ ; isValidSolanaAddress: new
\* PublicKey(address) succeeds.  Addresses are abstracted to their shape.
isValidEthereumAddress(address) == address = "ethAddress"

isValidSolanaAddress(address) == address = "solAddress"

\* answer.toLowerCase()
LowerChar(c) ==
    CASE c = "Y" -> "y" [] c = "E" -> "e" [] c = "S" -> "s"
      [] c = "N" -> "n" [] c = "O" -> "o" [] OTHER -> c

toLowerCase(s) == [i \in DOMAIN s |-> LowerChar(s[i])]

\* variant: accepts every answer that starts with y
ConfirmsPrefix(answer) == answer # <<>> /\ toLowerCase(answer)[1] = "y"

\* askConfirmation's resolve value
Confirms(answer) ==
    toLowerCase(answer) = <<"y", "e", "s">> \/ toLowerCase(answer) = <<"y">>

-----------------------------------------------------------------------------
(* Amounts and rates.  A JS Number is modelled as the exact fraction n/d in
   lowest terms (d > 0); toFixed rounds it to the decimals asked for.  The
   amounts of the model are far below 2^53 and no value lies at a rounding
   boundary, so the doubles of the code round to the same decimals. *)

RECURSIVE Gcd(_, _)
Gcd(a, b) == IF b = 0 THEN a ELSE Gcd(b, a % b)

Abs(x) == IF x < 0 THEN -x ELSE x

Frac(n, d) == LET g == Gcd(Abs(n), d) IN [n |-> n \div g, d |-> d \div g]

\* Number(amount) of an integer amount
Number(amount) == Frac(amount, 1)

RECURSIVE Pow10(_)
Pow10(k) == IF k = 0 THEN 1 ELSE 10 * Pow10(k - 1)

\* Math.pow(10, k)
MathPow10(k) == IF k >= 0 THEN Frac(Pow10(k), 1) ELSE Frac(1, Pow10(-k))

\* x * y
Mul(x, y) ==
    LET g1 == Gcd(Abs(x.n), y.d)
        g2 == Gcd(Abs(y.n), x.d)
    IN  [n |-> (x.n \div g1) * (y.n \div g2), d |-> (x.d \div g2) * (y.d \div g1)]

\* x / y, y not 0
Div(x, y) ==
    Mul(x, IF y.n > 0 THEN [n |-> y.d, d |-> y.n] ELSE [n |-> -y.d, d |-> -y.n])

\* x - y
Sub(x, y) ==
    LET l == (x.d \div Gcd(x.d, y.d)) * y.d
    IN  Frac(x.n * (l \div x.d) - y.n * (l \div y.d), l)

\* the first k decimals of r/d, r < d, and what is left of r
RECURSIVE Decimals(_, _, _)
Decimals(r, d, k) ==
    IF k = 0 THEN [q |-> 0, r |-> r]
    ELSE LET p == Decimals(r, d, k - 1)
         IN  [q |-> p.q * 10 + (p.r * 10) \div d, r |-> (p.r * 10) % d]

\* x.toFixed(k): sign, integer part and the k decimals as a number
toFixed(x, k) ==
    LET a == Abs(x.n)
        f == Decimals(a % x.d, x.d, k)
        q == IF 2 * f.r >= x.d THEN f.q + 1 ELSE f.q
    IN  [neg |-> x.n < 0,
         int |-> IF q = Pow10(k) THEN a \div x.d + 1 ELSE a \div x.d,
         frac |-> IF q = Pow10(k) THEN 0 ELSE q]

DigitChar(d) == <<"0", "1", "2", "3", "4", "5", "6", "7", "8", "9">>[d + 1]

\* the decimal digits of n >= 0
RECURSIVE DigitsOf(_)
DigitsOf(n) ==
    IF n < 10 THEN <<DigitChar(n)>> ELSE Append(DigitsOf(n \div 10), DigitChar(n % 10))

RECURSIVE PadStart(_, _)
PadStart(s, k) == IF Len(s) >= k THEN s ELSE PadStart(<<"0">> \o s, k)

\* the string x.toFixed(k) returns
toFixedText(x, k) ==
    LET f == toFixed(x, k)
    IN  (IF f.neg THEN <<"-">> ELSE <<>>) \o DigitsOf(f.int)
        \o (IF k = 0 THEN <<>> ELSE <<".">> \o PadStart(DigitsOf(f.frac), k))

\* formatAmount: (Number(amount) / Math.pow(10, decimals)).toFixed(decimals)
formatAmount(amount, decimals) ==
    toFixedText(Div(Number(amount), MathPow10(decimals)), decimals)

\* variant: the ratio of the raw amounts, decimals ignored
effectiveRateRaw(q) == Div(Number(q.toAmount), Number(q.fromAmount))

\* logQuoteDetails, the Rate line: Number(toAmount) / Number(fromAmount) *
\* Math.pow(10, fromToken.decimals - toToken.decimals)
effectiveRate(q) ==
    Mul(Div(Number(q.toAmount), Number(q.fromAmount)),
        MathPow10(q.fromDecimals - q.toDecimals))

\* analyzeTransaction: quoteRate
quoteRate(q) ==
    Div(Div(Number(q.toAmount), MathPow10(q.toDecimals)),
        Div(Number(q.fromAmount), MathPow10(q.fromDecimals)))

\* variant: the ratio of the raw transfer amounts, decimals ignored
actualRateRaw(q, t) == Div(Number(t.output), Number(t.input))

\* analyzeTransaction: inputAmount, outputAmount, actualRate
actualRate(q, t) ==
    LET inputAmount == Div(Number(t.input), MathPow10(q.fromDecimals))
        outputAmount == Div(Number(t.output), MathPow10(q.toDecimals))
    IN  Div(outputAmount, inputAmount)

\* analyzeTransaction: (actualRate - quoteRate) / quoteRate * 100, before
\* toFixed(2)
rateDiff(q, t) ==
    Mul(Div(Sub(actualRate(q, t), quoteRate(q)), quoteRate(q)), Number(100))

-----------------------------------------------------------------------------
(* The outside world: what the operator, the provider, the RPC node and the
   explorer can answer *)

\* the operator's answers to the parameter prompts (after trim(); <<>> and ""
\* are the empty answer, replaced by the default): among the amounts a
\* fraction, an exponent notation and a hexadecimal literal
AmountInputs ==
    {<<>>, <<"0", "0", "7">>, <<"0">>, <<"-", "5">>, <<"a">>,
     <<"1", ".", "5">>, <<"1", "e", "3">>, <<"0", "x", "1", "0">>}

ChainInputs == {"", "sol", "bsc"}

AddressInputs == {"", "ethAddress", "bad"}

\* the operator's answers to the confirmation prompt (not trimmed)
Answers == {<<"y">>, <<"Y", "E", "S">>, <<"Y", "e", "s">>, <<"n", "o">>, <<>>,
            <<"y", "e", "s", " ">>, <<"y", "e">>}

\* an HTTP response: status 0 stands for a fetch that rejected (transport
\* failure); body is the shape of the response text
IsOk(resp) == resp.status \in 200..299

\* /connections: "text" is not JSON, "json" an error object, "noField" {},
\* "empty" {connections: []}, "one" a well-formed connection, "nullEntry"
\* {connections: [null]}
ConnResponses ==
    {[status |-> 0, body |-> "none"]}
    \cup [status : {429, 500}, body : {"text", "json"}]
    \cup [status : {200}, body : {"text", "noField", "empty", "one", "nullEntry"}]

\* /quote: an error object carries a code; a quote carries (or not) the
\* transaction payload: "missing", "malformed" (does not deserialize), "good"
QuoteResponses ==
    {[status |-> 0, body |-> "none", code |-> 0, data |-> NONE]}
    \cup [status : {429, 500}, body : {"text"}, code : {0}, data : {NONE}]
    \cup [status : {429, 404}, body : {"json"}, code : {0, 1002, 1003, 1011}, data : {NONE}]
    \cup [status : {200}, body : {"text", "noAction"}, code : {0}, data : {NONE}]
    \cup [status : {200}, body : {"quote"}, code : {0}, data : {"missing", "malformed", "good"}]

\* the amounts and decimals of a quote, and the two transfer legs the explorer
\* reports for the finalized transaction
RateQuotes ==
    [fromAmount : {10000000}, fromDecimals : {6, 9},
     toAmount : {9950000, 10000000}, toDecimals : {6, 9}]

RateTransfers == [input : {10000000}, output : {9900000, 9950000}]

\* sendRawTransaction: the node accepted the bytes and answered ("ok"), accepted
\* them but the answer was lost or late ("failAccepted"), or did not accept them
SendOutcomes == {"ok", "failAccepted", "failRejected"}

\* on-chain errors of a confirmation result (null = no error)
ChainErrors == {"InstructionError"}

\* explorer (Shyft) answers: transport failure, HTTP error, success=false,
\* missing result, a malformed action list, and well-formed action lists
ShyftResponses ==
    {"transport", "httpError", "text", "notSuccess", "noResult", "nullAction",
     "noActions", "noSwap", "swapOnly", "swapInputOnly", "swapOutputOnly",
     "swapBothLegs"}

-----------------------------------------------------------------------------
(* test-swap.js: the functions run() calls *)

DefaultAmount == <<"1", "0", "0", "0", "0", "0", "0", "0">>

WalletAddress == "solAddress"

\* the lines checkConnection logs for the first connection of the answer
ConnectionDetails ==
    {"OK Connection found:", "From Chain ID", "To Chain ID",
     "From Token Details:", "To Token Details:"}

\* the try block of checkConnection
checkConnectionTry(resp) ==
    LET l0 == {"=== Checking Li.Fi Connection ==="}
    IN  IF resp.status = 0 THEN Throw(Err("fetch failed", NONE), l0)
        ELSE IF ~IsOk(resp) THEN
            \* const errorDetails = JSON.parse(errorText) comes first
            IF resp.body = "text" THEN Throw(Err("SyntaxError", NONE), l0)
            ELSE Throw(Err("HTTP error! status", ToString(resp.status)),
                       l0 \cup (IF resp.status = 429
                                THEN {"! Rate limit exceeded",
                                      "Please wait a moment before trying again"}
                                ELSE {}))
        ELSE IF resp.body = "text" THEN Throw(Err("SyntaxError", NONE), l0)
        ELSE IF resp.body \in {"one", "nullEntry"} THEN
            \* data.connections.length > 0
            IF resp.body = "nullEntry"
            THEN Throw(Err("TypeError", NONE), l0 \cup {"OK Connection found:"})
            ELSE Return(TRUE, l0 \cup ConnectionDetails)
        ELSE Return(FALSE, l0 \cup {"X No connection found between tokens"})

\* variant: the catch block rethrows, as getQuote's does
checkConnectionCatchRethrow(t) ==
    Throw(t.value, t.lines \cup {"X Error checking connection"})

\* the catch block of checkConnection
checkConnectionCatch(t) ==
    Return(FALSE, t.lines \cup {"X Error checking connection"})

checkConnection(resp) ==
    LET t == checkConnectionTry(resp)
    IN  IF t.outcome = "throw" THEN checkConnectionCatch(t) ELSE t

\* the lines getQuote logs for a non-OK answer before it throws
QuoteErrorLines(resp) ==
    IF resp.code = 1003 THEN {"! Token not supported by Li.Fi"}
    ELSE IF resp.code = 1011 THEN {"! Invalid address format for target chain"}
    ELSE IF resp.code = 1002 THEN {"! No available quotes"}
    ELSE IF resp.status = 429 THEN {"! Rate limit exceeded",
                                    "Please wait a moment before trying again"}
    ELSE {}

\* the try block of getQuote
getQuoteTry(resp) ==
    LET l0 == {"=== Requesting Li.Fi Quote ===", "Using direct bridge preference"}
    IN  IF resp.status = 0 THEN Throw(Err("fetch failed", NONE), l0)
        ELSE IF ~IsOk(resp) THEN
            IF resp.body = "text" THEN Throw(Err("SyntaxError", NONE), l0)
            ELSE Throw(Err("HTTP error! status", ToString(resp.status)),
                       l0 \cup QuoteErrorLines(resp))
        ELSE IF resp.body = "text" THEN Throw(Err("SyntaxError", NONE), l0)
        ELSE IF resp.body = "noAction" THEN Throw(Err("TypeError", NONE), l0)
        ELSE Return([data |-> resp.data], l0 \cup {"=== Li.Fi Quote Details ==="})

\* the catch block of getQuote: log the request parameters, rethrow
getQuoteCatch(t) ==
    Throw(t.value, t.lines \cup
        {"X Error fetching quote", "Failed Quote Parameters:", "From Chain",
         "To Chain", "From Token", "To Token", "Amount", "From Address",
         "To Address"})

getQuote(resp) ==
    LET t == getQuoteTry(resp)
    IN  IF t.outcome = "throw" THEN getQuoteCatch(t) ELSE t

\* variant: every payload deserializes
deserializeLenient(data) == Return([payload |-> data, signatures |-> {}], {})

\* VersionedTransaction.deserialize(Buffer.from(transactionData, 'base64'))
deserialize(data) ==
    IF data = "good" THEN Return([payload |-> data, signatures |-> {}], {})
    ELSE Throw(Err("deserialize failed", NONE), {})

\* transaction.sign([wallet])
sign(tx) == [tx EXCEPT !.signatures = {WalletAddress}]

\* variant: every attempt serializes a transaction made anew for it, so the
\* bytes differ from one attempt to the next
serializePerAttempt(tx) == <<tx.payload, tx.signatures, retries>>

\* transaction.serialize()
serialize(tx) == <<tx.payload, tx.signatures>>

\* the signature sendRawTransaction returns for the bytes
SignatureOf(bytes) == <<"sig", bytes>>

\* Where the values that test-swap.js puts into requests and log lines come
\* from.  Of the wallet there are three: the secret key (bs58.decode of
\* SOL_SECRET), the public key (wallet.publicKey) and a signature
\* (transaction.sign([wallet]), and the transaction id made of it).
KeyMaterial == {"secretKey", "publicKey", "signature"}

\* the effects that leave the process for the quote provider, the RPC node
\* or the explorer
OutgoingOps ==
    {"GET /connections", "GET /quote", "getVersion", "getLatestBlockhash",
     "sendRawTransaction", "getBlockHeight", "confirmTransaction", "GET shyft"}

\* what a request is built from: the query parameters and headers of the
\* fetch calls, the arguments of the connection methods
Sent(op) ==
    CASE op = "GET /connections" -> {"params", "LI_FI_API"}
      [] op = "GET /quote" -> {"params", "publicKey", "LI_FI_API"}
      [] op = "sendRawTransaction" -> {"quote", "signature"}
      [] op = "confirmTransaction" -> {"signature", "blockhash", "height"}
      [] op = "GET shyft" -> {"signature", "SHYFT_API_KEY"}
      [] OTHER -> {}

\* variant: the wallet line prints the key pair instead of its address
LoggedWholeWallet(line) ==
    IF line = "Solana wallet initialized with address"
    THEN {"publicKey", "secretKey"}
    ELSE {}

\* what a line of the log or the console is built from, as far as the wallet
\* is concerned ("Transaction Links:" stands for the explorer links under it,
\* the banner of run for the JSON of params that follows it)
Logged(line) ==
    IF line \in {"Solana wallet initialized with address",
                 "=== Starting Cross-Chain Swap Process ==="}
    THEN {"publicKey"}
    ELSE IF line \in {"Transaction sent", "Solscan link",
                      "=== Analyzing Swap Transaction", "Transaction Links:"}
    THEN {"signature"}
    ELSE {}

\* variant: result.actions.find(...) without the optional chaining
findSwapActionStrict(r) ==
    IF r \in {"nullAction", "noActions"} THEN "throw"
    ELSE IF r = "noSwap" THEN "none"
    ELSE "found"

\* result.actions?.find(action => action.type === 'SWAP'): "throw" when an
\* entry of the list is no object, "none" when the list is absent or holds no
\* SWAP action
findSwapAction(r) ==
    IF r = "nullAction" THEN "throw"
    ELSE IF r \in {"noActions", "noSwap"} THEN "none"
    ELSE "found"

\* if (inputTransfer && outputTransfer)
BothLegs(r) == r = "swapBothLegs"

\* the try block of analyzeTransaction
analyzeTransactionTry(r) ==
    LET l0 == {"=== Analyzing Swap Transaction"}
        l1 == l0 \cup {"Transaction Details:"}
        links == {"Transaction Links:"}
    IN  CASE r = "transport" -> Throw(Err("fetch failed", NONE), l0)
          [] r = "httpError" -> Throw(Err("Shyft API error", NONE),
                                      l0 \cup {"! Shyft API error:"})
          [] r = "text" -> Throw(Err("SyntaxError", NONE), l0)
          [] r = "notSuccess" -> Throw(Err("Shyft API error", NONE),
                                       l0 \cup {"! Shyft API returned error:"})
          [] r = "noResult" -> Throw(Err("TypeError", NONE), l1)
          [] OTHER ->
                IF findSwapAction(r) = "throw" THEN Throw(Err("TypeError", NONE), l1)
                ELSE IF findSwapAction(r) = "none"
                THEN Return(NONE, l1 \cup links \cup {"No swap action found in transaction"})
                ELSE IF ~BothLegs(r)
                THEN Return(NONE, l1 \cup links \cup {"Swap Details:"})
                ELSE Return(NONE, l1 \cup links \cup
                        {"Swap Details:", "Token Transfers:", "Rate",
                         "=== Quote vs Actual Comparison ===", "Rate Comparison:"})

\* variant: the catch block rethrows, as executeSwap's does
analyzeTransactionCatchRethrow(t) ==
    Throw(t.value, t.lines \cup {"X Error analyzing transaction"})

\* the catch block of analyzeTransaction: log, do not rethrow
analyzeTransactionCatch(t) ==
    Return(NONE, t.lines \cup {"X Error analyzing transaction"})

analyzeTransaction(r) ==
    LET t == analyzeTransactionTry(r)
    IN  IF t.outcome = "throw" THEN analyzeTransactionCatch(t) ELSE t

-----------------------------------------------------------------------------
(* test-swap.js: run() and executeSwap(), one action per await *)

\* the bridge script's params.fromChain: 1151111081099710
SolanaChainId == "1151111081099710"

\* toChain is the Solana id in the script as it stands; run() polls the status
\* when it is set to another network (here Ethereum, "1")
BridgeToChains == {SolanaChainId, "1"}

Scripts == {"swap", "tx", "quote", "info", "bridge", "scenarios"}

\* what the process can find in its environment: SOL_SECRET unset, set to
\* something bs58.decode or Keypair.fromSecretKey rejects, or set to a secret
\* key; LI_FI_API unset or set
Environments ==
    [SOL_SECRET : {"absent", "invalid", "valid"}, LI_FI_API : {"absent", "present"}]

\* the scripts whose module code reads SOL_SECRET and builds the wallet
\* (test-transaction-info.js reads nothing from the environment)
WalletScripts == Scripts \ {"info"}

\* variant: no script tests LI_FI_API
RequiresApiKeyNever(s) == FALSE

\* if (!process.env.LI_FI_API) { ...; process.exit(1) }: test-swap.js alone has
\* this test
RequiresApiKey(s) == s = "swap"

\* the module code of a script, from the environment tests to the wallet:
\* whether it ends in process.exit(1), and what it writes to the console
Startup(s, e) ==
    IF s \notin WalletScripts THEN [exit |-> FALSE, lines |-> {}]
    ELSE IF e.SOL_SECRET = "absent"
    THEN [exit |-> TRUE, lines |-> {"Error: SOL_SECRET is not set in .env file"}]
    ELSE IF RequiresApiKey(s) /\ e.LI_FI_API = "absent"
    THEN [exit |-> TRUE, lines |-> {"Error: LI_FI_API is not set in .env file"}]
    ELSE IF e.SOL_SECRET = "invalid"
    THEN [exit |-> TRUE, lines |-> {"Error initializing Solana wallet"}]
    ELSE [exit |-> FALSE, lines |-> {"Solana wallet initialized with address"}]

\* the first await of each script's run()
StartOf(s) ==
    CASE s = "swap" -> "prompts"
      [] s = "tx" -> "txBalance"
      [] s = "quote" -> "tqCheckConnection"
      [] s = "info" -> "getTransactionInfo"
      [] s = "bridge" -> "brGetQuote"
      [] s = "scenarios" -> "scGetQuote"

Init ==
    /\ script \in Scripts
    /\ env \in Environments
    /\ pc = "init"
    /\ calls = <<>>
    /\ log = {}
    /\ input = UNSET
    /\ params \in IF script = "bridge"
                 THEN [fromChain : {SolanaChainId}, toChain : BridgeToChains]
                 ELSE {UNSET}
    /\ hasConnection = <<>>
    /\ quote = UNSET
    /\ retries = 0
    /\ blockhash = NONE
    /\ transaction = UNSET
    /\ signature = UNSET
    /\ accepted = 0
    /\ height = 0
    /\ submitHeight = 0
    /\ swapResult = [outcome |-> NONE, value |-> UNSET]
    /\ error = NoError
    /\ rlClosed = FALSE

\* the module code runs, then run() (runTests, getTransactionInfo) is called
\* and reaches its first await, unless the process has exited
Initialise ==
    /\ script \in Scripts /\ pc = "init"
    /\ LET r == Startup(script, env)
       IN  /\ pc' = IF r.exit THEN "exited" ELSE StartOf(script)
           /\ log' = log \cup r.lines
    /\ UNCHANGED <<script, env, calls, input, params, hasConnection, quote, retries,
                   blockhash, transaction, signature, accepted, height, submitHeight,
                   swapResult, error, rlClosed>>

\* run() returns: only the finally block is left
RunReturn(lines) ==
    /\ pc' = "done"
    /\ log' = log \cup lines
    /\ rlClosed' = TRUE
    /\ UNCHANGED error

\* variant: the catch block logs the error without the banner
RunCatchNoBanner(e, lines) ==
    /\ pc' = "done"
    /\ log' = log \cup lines \cup {"X Error in run"}
    /\ rlClosed' = TRUE
    /\ error' = e

\* run()'s catch block, then the finally block
RunCatch(e, lines) ==
    /\ pc' = "done"
    /\ log' = log \cup lines \cup {"X Error in run", "X SWAP FAILED X"}
    /\ rlClosed' = TRUE
    /\ error' = e

\* executeSwap's catch block: log and rethrow into run()
ExecuteSwapCatch(e, lines) ==
    /\ swapResult' = [outcome |-> "throw", value |-> e]
    /\ RunCatch(e, lines \cup {"X Error executing swap"})

\* variant: gives up one attempt early (retries <= 1 instead of === 0)
RetriesExhaustedEarly(r) == r <= 1

\* if (retries === 0) throw error
RetriesExhausted(r) == r = 0

\* the five parameter prompts and the validation that follows them
Prompts ==
    /\ script = "swap" /\ pc = "prompts"
    /\ \E a \in AmountInputs, c \in ChainInputs, d \in AddressInputs :
        LET amountInput == IF a = <<>> THEN DefaultAmount ELSE a
            toChain == IF c = "" THEN "eth" ELSE c
            defaultToAddress == IF toChain = "eth" THEN "ethAddress" ELSE "solAddress"
            toAddress == IF d = "" THEN defaultToAddress ELSE d
            amount == formatAmountToSmallestUnit(amountInput)
        IN  /\ input' = [amount |-> a, toChain |-> c, toAddress |-> d]
            /\ calls' = Append(calls, Event("prompt", "parameters", NONE))
            /\ IF ~isValidSolanaAddress(WalletAddress)
               THEN RunReturn({"X Invalid Solana from address"}) /\ UNCHANGED params
               ELSE IF toChain = "eth" /\ ~isValidEthereumAddress(toAddress)
               THEN RunReturn({"X Invalid Ethereum to address"}) /\ UNCHANGED params
               ELSE IF toChain = "sol" /\ ~isValidSolanaAddress(toAddress)
               THEN RunReturn({"X Invalid Solana to address"}) /\ UNCHANGED params
               ELSE IF NumberIsNaN(amount) \/ ~NumberIsPositive(amount)
               THEN RunReturn({"Amount Details:",
                               "X Invalid amount: Must be a positive number"})
                    /\ UNCHANGED params
               ELSE /\ params' = [fromChain |-> "sol", toChain |-> toChain,
                                  fromAmount |-> amount,
                                  fromAddress |-> WalletAddress,
                                  toAddress |-> toAddress]
                    /\ pc' = "checkConnection"
                    /\ log' = log \cup {"Amount Details:",
                                        "=== Starting Cross-Chain Swap Process ==="}
                    /\ UNCHANGED <<error, rlClosed>>
    /\ UNCHANGED <<script, env, submitHeight, hasConnection, quote, retries, blockhash, transaction, signature,
                   accepted, height, swapResult>>

\* variant: quotes regardless of the route check, as test-quote.js does
HaltsBeforeQuoteNever(has) == FALSE

\* if (!hasConnection) { ...; return; }
HaltsBeforeQuote(has) == ~has

\* Step 1: await checkConnection(...)
CheckConnection ==
    /\ script = "swap" /\ pc = "checkConnection"
    /\ \E resp \in ConnResponses :
        LET r == checkConnection(resp)
        IN  /\ calls' = Append(calls, Event("GET /connections", NONE, resp))
            /\ hasConnection' = IF r.outcome = "throw" THEN hasConnection ELSE <<r.value>>
            /\ IF r.outcome = "throw" THEN RunCatch(r.value, r.lines)
               ELSE IF HaltsBeforeQuote(r.value)
               THEN RunReturn(r.lines \cup {"! No connection found between tokens",
                                            "Please verify token addresses and try again"})
               ELSE /\ pc' = "getQuote"
                    /\ log' = log \cup r.lines
                    /\ UNCHANGED <<error, rlClosed>>
    /\ UNCHANGED <<script, env, submitHeight, input, params, quote, retries, blockhash, transaction,
                   signature, accepted, height, swapResult>>

\* Step 2: await getQuote(...)
GetQuote ==
    /\ script = "swap" /\ pc = "getQuote"
    /\ \E resp \in QuoteResponses :
        LET r == getQuote(resp)
        IN  /\ calls' = Append(calls, Event("GET /quote", params.fromAmount, resp))
            /\ IF r.outcome = "throw"
               THEN RunCatch(r.value, r.lines) /\ UNCHANGED quote
               ELSE /\ quote' = r.value
                    /\ pc' = "askConfirmation"
                    /\ log' = log \cup r.lines
                    /\ UNCHANGED <<error, rlClosed>>
    /\ UNCHANGED <<script, env, submitHeight, hasConnection, input, params, retries, blockhash, transaction,
                   signature, accepted, height, swapResult>>

\* variant: the check of the quote's transaction data is left out
HasTransactionDataUnchecked(q) == TRUE

\* if (!quote.transactionRequest || !quote.transactionRequest.data) throw ...
HasTransactionData(q) == q.data # "missing"

\* await askConfirmation(...); when confirmed, executeSwap up to its first await
AskConfirmation ==
    /\ script = "swap" /\ pc = "askConfirmation"
    /\ \E answer \in Answers :
        /\ calls' = Append(calls, Event("askConfirmation", NONE, answer))
        /\ IF ~Confirms(answer)
           THEN RunReturn({"X Transaction cancelled by user"}) /\ UNCHANGED swapResult
           ELSE IF ~HasTransactionData(quote)
           THEN ExecuteSwapCatch(Err("No transaction data in quote response", NONE),
                                 {"=== Executing Swap Transaction ===",
                                  "! No transaction data in quote response"})
           ELSE /\ pc' = "health"
                /\ log' = log \cup {"=== Executing Swap Transaction ==="}
                /\ UNCHANGED <<error, rlClosed, swapResult>>
    /\ UNCHANGED <<script, env, submitHeight, hasConnection, input, params, quote, retries, blockhash, transaction,
                   signature, accepted, height>>

\* await checkConnectionHealth(): connection.getVersion()
CheckConnectionHealth ==
    /\ script = "swap" /\ pc = "health"
    /\ \E ok \in BOOLEAN :
        /\ calls' = Append(calls, Event("getVersion", NONE, IF ok THEN "ok" ELSE "fail"))
        /\ IF ok
           THEN /\ pc' = "blockhash"
                /\ retries' = BlockhashRetries
                /\ log' = log \cup {"OK Solana connection is healthy",
                                    "Getting recent blockhash..."}
                /\ UNCHANGED <<error, rlClosed, swapResult>>
           ELSE /\ ExecuteSwapCatch(Err("Solana connection is not healthy", NONE),
                                    {"X Solana connection error"})
                /\ UNCHANGED retries
    /\ UNCHANGED <<script, env, submitHeight, hasConnection, input, params, quote, blockhash, transaction,
                   signature, accepted, height>>

\* variant: the broadcast loop goes on with what the blockhash loop left
SendBudgetCarriedOver(left) == left

\* retries = 3, between the blockhash loop and the broadcast loop
SendBudget(left) == SendRetries

\* variant: the height is handed on without a margin
lastValidBlockHeightNoMargin(h) == h

\* lastValidBlockHeight: (await connection.getBlockHeight()) + 150
lastValidBlockHeight(h) == h + ExpiryMargin

\* variant: the blockhash variable is never assigned
ConfirmationStrategyNoBlockhash(sig, bh, h) ==
    [signature |-> sig, blockhash |-> NONE,
     lastValidBlockHeight |-> lastValidBlockHeight(h)]

\* the argument of connection.confirmTransaction
ConfirmationStrategy(sig, bh, h) ==
    [signature |-> sig, blockhash |-> bh,
     lastValidBlockHeight |-> lastValidBlockHeight(h)]

\* variant: the confirmation result's err is not looked at
HasChainErrorIgnored(err) == FALSE

\* if (confirmation.value.err)
HasChainError(err) == err # NONE

\* one iteration of the blockhash loop; on success the code runs on, without
\* an await, through deserialize and sign to the first sendRawTransaction
GetLatestBlockhash ==
    /\ script = "swap" /\ pc = "blockhash"
    /\ \E ok \in BOOLEAN :
        IF ok
        THEN LET d == deserialize(quote.data)
             IN  /\ blockhash' = "blockhash1"
                 /\ IF d.outcome = "throw"
                    THEN /\ calls' = calls \o <<Event("getLatestBlockhash", NONE, "ok"),
                                                Event("deserialize", quote.data, "fail")>>
                         /\ ExecuteSwapCatch(d.value, {})
                         /\ UNCHANGED <<retries, transaction>>
                    ELSE /\ calls' = calls \o <<Event("getLatestBlockhash", NONE, "ok"),
                                                Event("deserialize", quote.data, "ok"),
                                                Event("sign", NONE, "ok")>>
                         /\ transaction' = sign(d.value)
                         /\ retries' = SendBudget(retries)
                         /\ pc' = "send"
                         /\ log' = log \cup {"Sending transaction..."}
                         /\ UNCHANGED <<error, rlClosed, swapResult>>
        ELSE /\ retries' = retries - 1
             /\ IF RetriesExhausted(retries')
                THEN /\ calls' = Append(calls, Event("getLatestBlockhash", NONE, "fail"))
                     /\ ExecuteSwapCatch(Err("getLatestBlockhash failed", NONE), {})
                ELSE /\ calls' = calls \o <<Event("getLatestBlockhash", NONE, "fail"),
                                            Event("delay", 1000, NONE)>>
                     /\ log' = log \cup {"Retrying blockhash fetch..."}
                     /\ UNCHANGED <<pc, error, rlClosed, swapResult>>
             /\ UNCHANGED <<blockhash, transaction>>
    /\ UNCHANGED <<script, env, submitHeight, hasConnection, input, params, quote, signature, accepted, height>>

\* one iteration of the broadcast loop
SendRawTransaction ==
    /\ script = "swap" /\ pc = "send"
    /\ \E o \in SendOutcomes, s \in submitHeight..MaxHeight :
        LET bytes == serialize(transaction)
        IN  /\ accepted' = IF o = "failRejected" THEN accepted ELSE accepted + 1
            /\ submitHeight' = s
            /\ IF o = "ok"
               THEN /\ calls' = Append(calls, Event("sendRawTransaction", bytes, o))
                    /\ signature' = SignatureOf(bytes)
                    /\ pc' = "blockHeight"
                    /\ log' = log \cup {"Transaction sent",
                                        "Waiting for transaction confirmation..."}
                    /\ UNCHANGED <<retries, error, rlClosed, swapResult>>
               ELSE /\ retries' = retries - 1
                    /\ IF RetriesExhausted(retries')
                       THEN /\ calls' = Append(calls, Event("sendRawTransaction", bytes, o))
                            /\ ExecuteSwapCatch(Err("sendRawTransaction failed", NONE), {})
                       ELSE /\ calls' = calls \o <<Event("sendRawTransaction", bytes, o),
                                                   Event("delay", 1000, NONE)>>
                            /\ log' = log \cup {"Retrying transaction send..."}
                            /\ UNCHANGED <<pc, error, rlClosed, swapResult>>
                    /\ UNCHANGED signature
    /\ UNCHANGED <<script, env, hasConnection, input, params, quote, blockhash, transaction, height>>

\* await connection.getBlockHeight(), the argument of confirmTransaction; the
\* network has not gone back since the broadcast
GetBlockHeight ==
    /\ script = "swap" /\ pc = "blockHeight"
    /\ \/ /\ calls' = Append(calls, Event("getBlockHeight", NONE, "fail"))
          /\ ExecuteSwapCatch(Err("getBlockHeight failed", NONE), {})
          /\ UNCHANGED height
       \/ \E h \in submitHeight..MaxHeight :
          /\ calls' = Append(calls, Event("getBlockHeight", NONE, "ok"))
          /\ height' = h
          /\ pc' = "confirm"
          /\ UNCHANGED <<log, error, rlClosed, swapResult>>
    /\ UNCHANGED <<script, env, submitHeight, hasConnection, input, params, quote, retries, blockhash, transaction,
                   signature, accepted>>

\* await connection.confirmTransaction({signature, blockhash,
\* lastValidBlockHeight}, 'confirmed'), then the rest of executeSwap
ConfirmTransaction ==
    /\ script = "swap" /\ pc = "confirm"
    /\ \E c \in {"raise", NONE} \cup ChainErrors :
        LET arg == ConfirmationStrategy(signature, blockhash, height)
        IN  /\ calls' = Append(calls, Event("confirmTransaction", arg, c))
            /\ IF c = "raise"
               THEN ExecuteSwapCatch(Err("confirmTransaction failed", NONE), {})
               ELSE IF HasChainError(c)
               THEN ExecuteSwapCatch(Err("Transaction failed", c),
                                     {"! Transaction failed with error:"})
               ELSE /\ swapResult' = [outcome |-> "return", value |-> signature]
                    /\ pc' = "analyze"
                    /\ log' = log \cup {"OK Transaction completed successfully!",
                                        "Solscan link"}
                    /\ UNCHANGED <<error, rlClosed>>
    /\ UNCHANGED <<script, env, submitHeight, hasConnection, input, params, quote, retries, blockhash, transaction,
                   signature, accepted, height>>

\* Step 4: await analyzeTransaction(signature, quote), then the completion
\* banner
AnalyzeTransaction ==
    /\ script = "swap" /\ pc = "analyze"
    /\ \E r \in ShyftResponses :
        LET a == analyzeTransaction(r)
        IN  /\ calls' = Append(calls, Event("GET shyft", swapResult.value, r))
            /\ IF a.outcome = "throw" THEN RunCatch(a.value, a.lines)
               ELSE RunReturn(a.lines \cup {"OK SWAP COMPLETED OK"})
    /\ UNCHANGED <<script, env, submitHeight, hasConnection, input, params, quote, retries, blockhash, transaction,
                   signature, accepted, height, swapResult>>

-----------------------------------------------------------------------------
(* The test-transaction script: checkWalletBalance, getQuote,
   verifyTransactionData, askConfirmation, then a single-shot submit *)

\* what connection.getBalance can return
Balances == {amountToSwap - 1, amountToSwap}

\* quote answers as far as the scripts without error-code handling see them
PlainQuoteResponses == {r \in QuoteResponses : r.code = 0}

\* getQuote of the test-transaction script: try block
getQuoteTry_tx(resp) ==
    LET l0 == {"Requesting quote from Li.Fi..."}
    IN  IF resp.status = 0 THEN Throw(Err("fetch failed", NONE), l0)
        ELSE IF ~IsOk(resp) THEN Throw(Err("HTTP error! status", ToString(resp.status)), l0)
        ELSE IF resp.body = "text" THEN Throw(Err("SyntaxError", NONE), l0)
        ELSE IF resp.body = "noAction" THEN Throw(Err("TypeError", NONE), l0)
        ELSE Return([data |-> resp.data], l0 \cup {"=== Li.Fi Quote Details ==="})

getQuote_tx(resp) ==
    LET t == getQuoteTry_tx(resp)
    IN  IF t.outcome = "throw"
        THEN Throw(t.value, t.lines \cup
                {"X Error fetching quote", "Failed Quote Parameters:", "From Chain",
                 "To Chain", "From Token", "To Token", "Amount"})
        ELSE t

\* variant: every payload that is present passes
verifyTransactionDataUnverified(data) ==
    IF data = "missing" THEN Throw(Err("No transaction data provided", NONE), {})
    ELSE Return(TRUE, {})

\* verifyTransactionData(transactionData)
verifyTransactionData(data) ==
    IF data = "missing" THEN Throw(Err("No transaction data provided", NONE), {})
    ELSE IF deserialize(data).outcome = "throw"
    THEN Throw(Err("Invalid transaction data", NONE), {})
    ELSE Return(TRUE, {})

\* run()'s catch and finally blocks in the test-transaction script
TxRunCatch(e, lines) ==
    /\ pc' = "done"
    /\ log' = log \cup lines \cup {"X Error in run"}
    /\ rlClosed' = TRUE
    /\ error' = e

\* const balance = await checkWalletBalance(), then the balance test.  The
\* event's arg is the balance read, 0 for a read that failed.
TxCheckWalletBalance ==
    /\ script = "tx" /\ pc = "txBalance"
    /\ \/ /\ calls' = Append(calls, Event("getBalance", 0, "fail"))
          /\ TxRunCatch(Err("getBalance failed", NONE), {"X Error checking balance"})
       \/ \E b \in Balances :
          /\ calls' = Append(calls, Event("getBalance", b, "ok"))
          /\ IF b < amountToSwap
             THEN TxRunCatch(Err("Insufficient balance", NONE), {"Current wallet balance"})
             ELSE /\ pc' = "txGetQuote"
                  /\ log' = log \cup {"Current wallet balance"}
                  /\ UNCHANGED <<error, rlClosed>>
    /\ UNCHANGED <<script, env, submitHeight, hasConnection, input, params, quote, retries, blockhash,
                   transaction, signature, accepted, height, swapResult>>

\* await getQuote(...), the payload test and verifyTransactionData
TxGetQuote ==
    /\ script = "tx" /\ pc = "txGetQuote"
    /\ \E resp \in PlainQuoteResponses :
        LET r == getQuote_tx(resp)
            q == Event("GET /quote", amountToSwap, resp)
        IN  IF r.outcome = "throw"
            THEN /\ calls' = Append(calls, q)
                 /\ TxRunCatch(r.value, r.lines)
                 /\ UNCHANGED quote
            ELSE IF r.value.data = "missing"
            THEN /\ calls' = Append(calls, q)
                 /\ TxRunCatch(Err("No transaction data in quote response", NONE), r.lines)
                 /\ UNCHANGED quote
            ELSE LET v == verifyTransactionData(r.value.data)
                 IN  /\ calls' = calls \o <<q, Event("deserialize", r.value.data,
                                                IF v.outcome = "throw" THEN "fail" ELSE "ok")>>
                     /\ IF v.outcome = "throw"
                        THEN TxRunCatch(v.value, r.lines) /\ UNCHANGED quote
                        ELSE /\ quote' = r.value
                             /\ pc' = "txAskConfirmation"
                             /\ log' = log \cup r.lines
                             /\ UNCHANGED <<error, rlClosed>>
    /\ UNCHANGED <<script, env, submitHeight, hasConnection, input, params, retries, blockhash,
                   transaction, signature, accepted, height, swapResult>>

\* await askConfirmation(...)
TxAskConfirmation ==
    /\ script = "tx" /\ pc = "txAskConfirmation"
    /\ \E answer \in Answers :
        /\ calls' = Append(calls, Event("askConfirmation", NONE, answer))
        /\ IF ~Confirms(answer)
           THEN RunReturn({"Transaction cancelled by user"})
           ELSE /\ pc' = "txBlockhash"
                /\ log' = log \cup {"Getting recent blockhash..."}
                /\ UNCHANGED <<error, rlClosed>>
    /\ UNCHANGED <<script, env, submitHeight, hasConnection, input, params, quote, retries, blockhash,
                   transaction, signature, accepted, height, swapResult>>

\* await connection.getLatestBlockhash(), then deserialize and sign
TxGetLatestBlockhash ==
    /\ script = "tx" /\ pc = "txBlockhash"
    /\ \E ok \in BOOLEAN :
        IF ~ok
        THEN /\ calls' = Append(calls, Event("getLatestBlockhash", NONE, "fail"))
             /\ TxRunCatch(Err("getLatestBlockhash failed", NONE), {})
             /\ UNCHANGED <<blockhash, transaction>>
        ELSE LET d == deserialize(quote.data)
             IN  /\ blockhash' = "blockhash1"
                 /\ IF d.outcome = "throw"
                    THEN /\ calls' = calls \o <<Event("getLatestBlockhash", NONE, "ok"),
                                                Event("deserialize", quote.data, "fail")>>
                         /\ TxRunCatch(d.value, {})
                         /\ UNCHANGED transaction
                    ELSE /\ calls' = calls \o <<Event("getLatestBlockhash", NONE, "ok"),
                                                Event("deserialize", quote.data, "ok"),
                                                Event("sign", NONE, "ok")>>
                         /\ transaction' = sign(d.value)
                         /\ pc' = "txSend"
                         /\ log' = log \cup {"Sending transaction..."}
                         /\ UNCHANGED <<error, rlClosed>>
    /\ UNCHANGED <<script, env, submitHeight, hasConnection, input, params, quote, retries, signature,
                   accepted, height, swapResult>>

\* await connection.sendRawTransaction(...), not retried
TxSendRawTransaction ==
    /\ script = "tx" /\ pc = "txSend"
    /\ \E o \in SendOutcomes :
        LET bytes == serialize(transaction)
        IN  /\ calls' = Append(calls, Event("sendRawTransaction", bytes, o))
            /\ accepted' = IF o = "failRejected" THEN accepted ELSE accepted + 1
            /\ IF o = "ok"
               THEN /\ signature' = SignatureOf(bytes)
                    /\ pc' = "txConfirm"
                    /\ log' = log \cup {"Transaction sent",
                                        "Waiting for transaction confirmation..."}
                    /\ UNCHANGED <<error, rlClosed>>
               ELSE /\ TxRunCatch(Err("sendRawTransaction failed", NONE), {})
                    /\ UNCHANGED signature
    /\ UNCHANGED <<script, env, submitHeight, hasConnection, input, params, quote, retries, blockhash,
                   transaction, height, swapResult>>

\* await connection.confirmTransaction(signature)
TxConfirmTransaction ==
    /\ script = "tx" /\ pc = "txConfirm"
    /\ \E c \in {"raise", NONE} \cup ChainErrors :
        /\ calls' = Append(calls, Event("confirmTransaction", signature, c))
        /\ IF c = "raise"
           THEN TxRunCatch(Err("confirmTransaction failed", NONE), {})
           ELSE IF HasChainError(c)
           THEN TxRunCatch(Err("Transaction failed", c), {})
           ELSE RunReturn({"OK Transaction completed successfully!", "Solscan link"})
    /\ UNCHANGED <<script, env, submitHeight, hasConnection, input, params, quote, retries, blockhash,
                   transaction, signature, accepted, height, swapResult>>

-----------------------------------------------------------------------------
(* test-quote.js: checkConnection, then getQuote regardless of its result *)

\* the try block of test-quote.js's checkConnection
checkConnectionTry_tq(resp) ==
    LET l0 == {"Checking Li.Fi connection..."}
    IN  IF resp.status = 0 THEN Throw(Err("fetch failed", NONE), l0)
        ELSE IF ~IsOk(resp) THEN Throw(Err("HTTP error! status", ToString(resp.status)), l0)
        ELSE IF resp.body = "text" THEN Throw(Err("SyntaxError", NONE), l0)
        ELSE IF resp.body \in {"one", "nullEntry"} THEN
            IF resp.body = "nullEntry"
            THEN Throw(Err("TypeError", NONE), l0 \cup {"OK Connection found:"})
            ELSE Return(TRUE, l0 \cup ConnectionDetails)
        ELSE Return(FALSE, l0 \cup {"X No connection found between tokens"})

\* the catch block of test-quote.js's checkConnection
checkConnectionCatch_tq(t) ==
    Return(FALSE, t.lines \cup {"X Error checking connection"})

checkConnection_tq(resp) ==
    LET t == checkConnectionTry_tq(resp)
    IN  IF t.outcome = "throw" THEN checkConnectionCatch_tq(t) ELSE t

\* getQuote of test-quote.js
getQuote_tq(resp) ==
    LET l0 == {"Requesting quote from Li.Fi..."}
        failed == l0 \cup {"X Error fetching quote", "Failed Quote Parameters:",
                           "From Chain", "To Chain", "From Token", "To Token", "Amount"}
    IN  IF resp.status = 0 THEN Throw(Err("fetch failed", NONE), failed)
        ELSE IF ~IsOk(resp) THEN Throw(Err("HTTP error! status", ToString(resp.status)), failed)
        ELSE IF resp.body = "text" THEN Throw(Err("SyntaxError", NONE), failed)
        ELSE Return([data |-> resp.data, body |-> resp.body], l0)

\* run()'s catch block in test-quote.js (no prompt interface to close)
TqRunCatch(e, lines) ==
    /\ pc' = "done"
    /\ log' = log \cup lines \cup {"X Error in run"}
    /\ error' = e

\* const hasConnection = await checkConnection(...)
TqCheckConnection ==
    /\ script = "quote" /\ pc = "tqCheckConnection"
    /\ \E resp \in ConnResponses :
        LET r == checkConnection_tq(resp)
        IN  /\ calls' = Append(calls, Event("GET /connections", NONE, resp))
            /\ hasConnection' = IF r.outcome = "throw" THEN hasConnection ELSE <<r.value>>
            /\ IF r.outcome = "throw" THEN TqRunCatch(r.value, r.lines)
               ELSE /\ pc' = "tqGetQuote"
                    /\ log' = log \cup r.lines
                    /\ UNCHANGED error
    /\ UNCHANGED <<script, env, submitHeight, input, params, quote, retries, blockhash, transaction,
                   signature, accepted, height, swapResult, rlClosed>>

\* variant: run() goes on to sign and broadcast the quote's transaction
TqGetQuoteThenSubmit ==
    /\ script = "quote" /\ pc = "tqGetQuote"
    /\ \E resp \in PlainQuoteResponses :
        LET r == getQuote_tq(resp)
            submits == r.outcome = "return" /\ r.value.data = "good"
        IN  /\ calls' = calls \o <<Event("GET /quote", DefaultAmount, resp)>>
                          \o (IF submits
                              THEN <<Event("sign", NONE, "ok"),
                                     Event("sendRawTransaction", NONE, "ok")>>
                              ELSE <<>>)
            /\ IF r.outcome = "throw"
               THEN TqRunCatch(r.value, r.lines) /\ UNCHANGED quote
               ELSE /\ quote' = [data |-> r.value.data]
                    /\ pc' = "done"
                    /\ log' = log \cup r.lines
                    /\ UNCHANGED error
    /\ UNCHANGED <<script, env, submitHeight, hasConnection, input, params, retries,
                   blockhash, transaction, signature, accepted, height, swapResult,
                   rlClosed>>

\* const quote = await getQuote(...); logQuoteDetails(quote)
TqGetQuote ==
    /\ script = "quote" /\ pc = "tqGetQuote"
    /\ \E resp \in PlainQuoteResponses :
        LET r == getQuote_tq(resp)
        IN  /\ calls' = Append(calls, Event("GET /quote", DefaultAmount, resp))
            /\ IF r.outcome = "throw"
               THEN TqRunCatch(r.value, r.lines) /\ UNCHANGED quote
               ELSE IF r.value.body = "noAction"
               THEN TqRunCatch(Err("TypeError", NONE), r.lines) /\ UNCHANGED quote
               ELSE /\ quote' = [data |-> r.value.data]
                    /\ pc' = "done"
                    /\ log' = log \cup r.lines \cup {"=== Li.Fi Quote Details ==="}
                    /\ UNCHANGED error
    /\ UNCHANGED <<script, env, submitHeight, hasConnection, input, params, retries, blockhash,
                   transaction, signature, accepted, height, swapResult, rlClosed>>

-----------------------------------------------------------------------------
(* test-transaction-info.js: getTransactionInfo of a fixed signature *)

\* const TRANSACTION_SIGNATURE
TRANSACTION_SIGNATURE == "35e3kTwQ"

\* the try block of getTransactionInfo
getTransactionInfoTry(r) ==
    LET l0 == {"Analyzing swap transaction"}
        l1 == l0 \cup {"=== Swap Transaction Details ==="}
        links == {"Transaction Links:"}
    IN  CASE r = "transport" -> Throw(Err("fetch failed", NONE), l0)
          [] r \in {"httpError", "notSuccess"} -> Throw(Err("Shyft API error", NONE), l0)
          [] r = "text" -> Throw(Err("SyntaxError", NONE), l0)
          [] r = "noResult" -> Throw(Err("TypeError", NONE), l1)
          [] OTHER ->
                IF findSwapAction(r) = "throw" THEN Throw(Err("TypeError", NONE), l1)
                ELSE IF findSwapAction(r) = "none"
                THEN Return(NONE, l1 \cup links \cup {"No swap action found in transaction"})
                ELSE IF ~BothLegs(r)
                THEN Return(NONE, l1 \cup links \cup {"Swap Details:"})
                ELSE Return(NONE, l1 \cup links \cup
                        {"Swap Details:", "Token Transfers:", "Rate"})

\* the catch block of getTransactionInfo: log, do not rethrow
getTransactionInfoCatch(t) ==
    Return(NONE, t.lines \cup {"X Error analyzing transaction"})

getTransactionInfo(r) ==
    LET t == getTransactionInfoTry(r)
    IN  IF t.outcome = "throw" THEN getTransactionInfoCatch(t) ELSE t

\* getTransactionInfo(TRANSACTION_SIGNATURE)
GetTransactionInfo ==
    /\ script = "info" /\ pc = "getTransactionInfo"
    /\ \E r \in ShyftResponses :
        LET a == getTransactionInfo(r)
        IN  /\ calls' = Append(calls, Event("GET shyft", TRANSACTION_SIGNATURE, r))
            /\ pc' = "done"
            /\ log' = log \cup {"Starting transaction analysis..."} \cup a.lines
            /\ error' = IF a.outcome = "throw" THEN a.value ELSE error
    /\ UNCHANGED <<script, env, submitHeight, hasConnection, input, params, quote, retries,
                   blockhash, transaction, signature, accepted, height, swapResult,
                   rlClosed>>

-----------------------------------------------------------------------------
(* The bridge script: quote, build, sign, submit, confirm, then poll the
   transfer status while the transfer crosses networks *)

\* /status: transport failure, HTTP error, a body that is not JSON, the body
\* null, an object without status, and the statuses of a transfer
StatusResponses ==
    {"transport", "httpError", "text", "null", "noStatus", "PENDING", "DONE", "FAILED"}

\* getQuote of the bridge script: the catch block logs and rethrows
getQuote_br(resp) ==
    IF resp.status = 0 THEN Throw(Err("fetch failed", NONE), {"Error fetching quote"})
    ELSE IF ~IsOk(resp)
    THEN Throw(Err("HTTP error! status", ToString(resp.status)), {"Error fetching quote"})
    ELSE IF resp.body = "text" THEN Throw(Err("SyntaxError", NONE), {"Error fetching quote"})
    ELSE Return([data |-> resp.data], {})

\* getStatus: the catch block logs and rethrows
getStatus(resp) ==
    IF resp = "transport" THEN Throw(Err("fetch failed", NONE), {"Error checking status"})
    ELSE IF resp = "httpError"
    THEN Throw(Err("HTTP error! status", "500"), {"Error checking status"})
    ELSE IF resp = "text" THEN Throw(Err("SyntaxError", NONE), {"Error checking status"})
    ELSE Return(resp, {})

\* if (params.fromChain !== params.toChain)
IsCrossChain(p) == p.fromChain # p.toChain

\* variant: only DONE ends the loop
IsTerminalStatusDoneOnly(status) == status = "DONE"

\* the negation of the loop condition
\* result.status !== 'DONE' && result.status !== 'FAILED'
IsTerminalStatus(status) == status \in {"DONE", "FAILED"}

\* run()'s catch block in the bridge script
BrRunCatch(e, lines) ==
    /\ pc' = "done"
    /\ log' = log \cup lines \cup {"Error in run"}
    /\ error' = e

\* const quote = await getQuote(...), then the transaction is built from
\* transactionRequest.instructions
BrGetQuote ==
    /\ script = "bridge" /\ pc = "brGetQuote"
    /\ \E resp \in PlainQuoteResponses :
        LET r == getQuote_br(resp)
        IN  /\ calls' = Append(calls, Event("GET /quote", "10000000", resp))
            /\ IF r.outcome = "throw"
               THEN BrRunCatch(r.value, r.lines \cup {"Requesting quote with params:"})
                    /\ UNCHANGED quote
               ELSE IF r.value.data # "good"
               THEN BrRunCatch(Err("TypeError", NONE),
                               {"Requesting quote with params:", "Quote result:",
                                "Sending transaction..."})
                    /\ UNCHANGED quote
               ELSE /\ quote' = r.value
                    /\ pc' = "brBlockhash"
                    /\ log' = log \cup {"Requesting quote with params:", "Quote result:",
                                        "Sending transaction...",
                                        "Getting recent blockhash..."}
                    /\ UNCHANGED error
    /\ UNCHANGED <<script, env, submitHeight, hasConnection, input, params, retries, blockhash,
                   transaction, signature, accepted, height, swapResult, rlClosed>>

\* await connection.getLatestBlockhash(), then sign
BrGetLatestBlockhash ==
    /\ script = "bridge" /\ pc = "brBlockhash"
    /\ \E ok \in BOOLEAN :
        IF ~ok
        THEN /\ calls' = Append(calls, Event("getLatestBlockhash", NONE, "fail"))
             /\ BrRunCatch(Err("getLatestBlockhash failed", NONE), {})
             /\ UNCHANGED <<blockhash, transaction>>
        ELSE /\ calls' = calls \o <<Event("getLatestBlockhash", NONE, "ok"),
                                    Event("sign", NONE, "ok")>>
             /\ blockhash' = "blockhash1"
             /\ transaction' = sign([payload |-> quote.data, signatures |-> {}])
             /\ pc' = "brSend"
             /\ UNCHANGED <<log, error>>
    /\ UNCHANGED <<script, env, submitHeight, hasConnection, input, params, quote, retries,
                   signature, accepted, height, swapResult, rlClosed>>

\* await connection.sendRawTransaction(...), not retried
BrSendRawTransaction ==
    /\ script = "bridge" /\ pc = "brSend"
    /\ \E o \in SendOutcomes :
        LET bytes == serialize(transaction)
        IN  /\ calls' = Append(calls, Event("sendRawTransaction", bytes, o))
            /\ accepted' = IF o = "failRejected" THEN accepted ELSE accepted + 1
            /\ IF o = "ok"
               THEN /\ signature' = SignatureOf(bytes)
                    /\ pc' = "brConfirm"
                    /\ log' = log \cup {"Transaction sent:",
                                        "Waiting for transaction confirmation..."}
                    /\ UNCHANGED error
               ELSE /\ BrRunCatch(Err("sendRawTransaction failed", NONE), {})
                    /\ UNCHANGED signature
    /\ UNCHANGED <<script, env, submitHeight, hasConnection, input, params, quote, retries,
                   blockhash, transaction, height, swapResult, rlClosed>>

\* await connection.confirmTransaction(signature), then the branch on the
\* two networks
BrConfirmTransaction ==
    /\ script = "bridge" /\ pc = "brConfirm"
    /\ \E c \in {"raise", NONE} \cup ChainErrors :
        /\ calls' = Append(calls, Event("confirmTransaction", signature, c))
        /\ IF c = "raise"
           THEN BrRunCatch(Err("confirmTransaction failed", NONE), {})
           ELSE IF HasChainError(c)
           THEN BrRunCatch(Err("Transaction failed", c), {})
           ELSE IF IsCrossChain(params)
           THEN /\ pc' = "brStatus"
                /\ UNCHANGED <<log, error>>
           ELSE /\ pc' = "done"
                /\ log' = log \cup {"Transaction completed successfully!"}
                /\ UNCHANGED error
    /\ UNCHANGED <<script, env, submitHeight, hasConnection, input, params, quote, retries,
                   blockhash, transaction, signature, accepted, height, swapResult,
                   rlClosed>>

\* one iteration of the do ... while loop: result = await getStatus(...)
BrGetStatus ==
    /\ script = "bridge" /\ pc = "brStatus"
    /\ Count("GET /status") < MaxPolls
    /\ \E resp \in StatusResponses :
        LET r == getStatus(resp)
        IN  /\ calls' = Append(calls, Event("GET /status", signature, resp))
            /\ IF r.outcome = "throw" THEN BrRunCatch(r.value, r.lines)
               ELSE IF r.value = "null" THEN BrRunCatch(Err("TypeError", NONE), {})
               ELSE IF IsTerminalStatus(r.value)
               THEN /\ pc' = "done"
                    /\ log' = log \cup {"Transfer status:",
                                        "Transaction completed successfully!"}
                    /\ UNCHANGED error
               ELSE /\ log' = log \cup {"Transfer status:"}
                    /\ UNCHANGED <<pc, error>>
    /\ UNCHANGED <<script, env, submitHeight, hasConnection, input, params, quote, retries,
                   blockhash, transaction, signature, accepted, height, swapResult,
                   rlClosed>>

-----------------------------------------------------------------------------
(* The scenarios script: runTests() asks for one quote per test scenario *)

\* testScenarios holds three scenarios
ScenarioCount == 3

\* await new Promise(resolve => setTimeout(resolve, 2000))
ScenarioDelay == 2000

\* getQuote of the scenarios script: it has no try/catch of its own
getQuote_sc(resp) ==
    LET l0 == {"Requesting quote from Li.Fi..."}
    IN  IF resp.status = 0 THEN Throw(Err("fetch failed", NONE), l0)
        ELSE IF resp.body = "text" THEN Throw(Err("SyntaxError", NONE), l0)
        ELSE IF ~IsOk(resp)
        THEN Throw(Err("HTTP error! status", ToString(resp.status)),
                   l0 \cup (IF resp.code = 1003
                            THEN {"! Token not supported by Li.Fi"}
                            ELSE IF resp.code = 1011
                            THEN {"! Invalid address format for target chain"}
                            ELSE {}))
        ELSE Return([data |-> resp.data, body |-> resp.body], l0)

\* the catch block of runTests' loop body
ScenarioCatchLines ==
    {"X Failed to test scenario", "Error:", "Failed Quote Parameters:", "From Chain",
     "To Chain", "From Token", "To Token", "Amount", "From Address", "To Address"}

\* variant: a failing scenario ends the loop, as without the try/catch
AfterScenarioStopOnFailure(n, failed) ==
    IF failed \/ n = ScenarioCount THEN "done" ELSE "scGetQuote"

\* for (const scenario of testScenarios): after scenario n the loop goes on to
\* the next one, whether n failed or not, and ends after the last
AfterScenario(n, failed) == IF n = ScenarioCount THEN "done" ELSE "scGetQuote"

\* one turn of runTests' loop: const quote = await getQuote(...), then
\* logQuoteDetails and the pause, or the catch block; after the last scenario
\* runTests returns.  The event's arg is the number of the scenario.
ScGetQuote ==
    /\ script = "scenarios" /\ pc = "scGetQuote"
    /\ \E resp \in QuoteResponses :
        LET r == getQuote_sc(resp)
            n == Count("GET /quote") + 1
            logged == r.outcome = "return" /\ r.value.body # "noAction"
        IN  /\ calls' = calls \o <<Event("GET /quote", n, resp)>>
                          \o (IF logged THEN <<Event("delay", ScenarioDelay, NONE)>>
                              ELSE <<>>)
            /\ log' = log \cup {"Starting Li.Fi API tests...", "Testing scenario"}
                          \cup r.lines
                          \cup (IF logged THEN {"=== Li.Fi Quote Details ==="}
                                ELSE ScenarioCatchLines)
                          \cup (IF n = ScenarioCount THEN {"Test suite completed!"}
                                ELSE {})
            /\ pc' = AfterScenario(n, ~logged)
    /\ UNCHANGED <<script, env, input, params, hasConnection, quote, retries, blockhash,
                   transaction, signature, accepted, height, submitHeight, swapResult,
                   error, rlClosed>>

-----------------------------------------------------------------------------

Next ==
    \/ Initialise
    \/ Prompts
    \/ CheckConnection
    \/ GetQuote
    \/ AskConfirmation
    \/ CheckConnectionHealth
    \/ GetLatestBlockhash
    \/ SendRawTransaction
    \/ GetBlockHeight
    \/ ConfirmTransaction
    \/ AnalyzeTransaction
    \/ TxCheckWalletBalance
    \/ TxGetQuote
    \/ TxAskConfirmation
    \/ TxGetLatestBlockhash
    \/ TxSendRawTransaction
    \/ TxConfirmTransaction
    \/ TqCheckConnection
    \/ TqGetQuote
    \/ GetTransactionInfo
    \/ BrGetQuote
    \/ BrGetLatestBlockhash
    \/ BrSendRawTransaction
    \/ BrConfirmTransaction
    \/ BrGetStatus
    \/ ScGetQuote

Spec == Init /\ [][Next]_vars

\* variant: no step is ever owed, an awaited call may never return
FairnessNone == TRUE

\* where a run stands: every step moves pc or adds to the calls made
Progress == <<pc, Len(calls)>>

\* every awaited call (prompt, request, RPC call, timer) returns or raises in
\* the end, and the script then takes its next step
Fairness == WF_Progress(Next)

FairSpec == Spec /\ Fairness

-----------------------------------------------------------------------------
(* The arithmetic on its own: the rate lines of logQuoteDetails and
   analyzeTransaction and the round trip of an amount through formatAmount,
   applied to a quote, two transfer legs, an amount and a number of decimals
   drawn at the start *)

ArithInit ==
    /\ script = "arith"
    /\ env = [SOL_SECRET |-> "valid", LI_FI_API |-> "present"]
    /\ pc = "logQuoteDetails"
    /\ calls = <<>>
    /\ log = {}
    /\ input \in [amount : 0..MaxAmount, decimals : 0..MaxDecimals,
                   transfers : RateTransfers]
    /\ params = UNSET
    /\ hasConnection = <<>>
    /\ quote \in RateQuotes
    /\ retries = 0
    /\ blockhash = NONE
    /\ transaction = UNSET
    /\ signature = UNSET
    /\ accepted = 0
    /\ height = 0
    /\ submitHeight = 0
    /\ swapResult = [outcome |-> NONE, value |-> UNSET]
    /\ error = NoError
    /\ rlClosed = FALSE

ArithUnchanged ==
    UNCHANGED <<script, env, input, params, hasConnection, quote, retries, blockhash,
                transaction, signature, accepted, height, submitHeight, swapResult,
                error, rlClosed>>

\* logQuoteDetails(quote): the Rate line
LogQuoteRate ==
    /\ script = "arith" /\ pc = "logQuoteDetails"
    /\ calls' = Append(calls, Event("logQuoteDetails", quote,
                                     [value |-> effectiveRate(quote),
                                      text |-> toFixed(effectiveRate(quote), 6)]))
    /\ log' = log \cup {"=== Li.Fi Quote Details ==="}
    /\ pc' = "compareRates"
    /\ ArithUnchanged

\* analyzeTransaction: the rate comparison of quote and transfers
CompareRates ==
    /\ script = "arith" /\ pc = "compareRates"
    /\ calls' = Append(calls, Event("compareRates", input.transfers,
            [quoteRate |-> quoteRate(quote),
             actualRate |-> actualRate(quote, input.transfers),
             deviation |-> rateDiff(quote, input.transfers),
             rateDiff |-> toFixed(rateDiff(quote, input.transfers), 2)]))
    /\ log' = log \cup {"Rate Comparison:"}
    /\ pc' = "formatAmount"
    /\ ArithUnchanged

\* formatAmount(amount, decimals)
FormatAmount ==
    /\ script = "arith" /\ pc = "formatAmount"
    /\ calls' = Append(calls, Event("formatAmount", <<input.amount, input.decimals>>,
                                     formatAmount(input.amount, input.decimals)))
    /\ pc' = "formatAmountToSmallestUnit"
    /\ UNCHANGED log
    /\ ArithUnchanged

\* formatAmountToSmallestUnit applied to the text formatAmount returned
ParseAmount ==
    /\ script = "arith" /\ pc = "formatAmountToSmallestUnit"
    /\ LET text == calls[Len(calls)].res
       IN  calls' = Append(calls, Event("formatAmountToSmallestUnit", text,
                                        formatAmountToSmallestUnit(text)))
    /\ pc' = "done"
    /\ UNCHANGED log
    /\ ArithUnchanged

ArithNext ==
    \/ LogQuoteRate
    \/ CompareRates
    \/ FormatAmount
    \/ ParseAmount

ArithSpec == ArithInit /\ [][ArithNext]_vars

-----------------------------------------------------------------------------
(* The search for the swap and its two legs on its own: analyzeTransaction's
   three result.actions.find(...) applied to an action list drawn at the
   start *)

\* longest action list the model draws
MaxActions == 3

\* who sends and receives: the swapper of the transaction and another party
Parties == {"swapper", "pool"}

\* the actions of a parsed transaction, as far as the three searches look at
\* them: type, info.swapper, info.sender, info.receiver
ActionKinds ==
    [type : {"SWAP"}, swapper : Parties, sender : {NONE}, receiver : {NONE}]
    \cup [type : {"TOKEN_TRANSFER"}, swapper : {NONE}, sender : Parties,
          receiver : Parties]
    \cup [type : {"SOL_TRANSFER"}, swapper : {NONE}, sender : {"swapper"},
          receiver : {"pool"}]

ActionLists == UNION {[1..n -> ActionKinds] : n \in 0..MaxActions}

\* Array.prototype.find, as the position of the element found (0: undefined),
\* given the positions of the elements that pass the test
find(passing) ==
    IF passing = {} THEN 0
    ELSE CHOOSE i \in passing : \A j \in passing : i <= j

\* result.actions.find(action => action.type === 'SWAP')
swapAction(actions) == find({i \in DOMAIN actions : actions[i].type = "SWAP"})

\* result.actions.find(action => action.type === 'TOKEN_TRANSFER' &&
\*                               action.info.sender === info.swapper)
inputTransfer(actions, info) ==
    find({i \in DOMAIN actions : /\ actions[i].type = "TOKEN_TRANSFER"
                                 /\ actions[i].sender = info.swapper})

\* result.actions.find(action => action.type === 'TOKEN_TRANSFER' &&
\*                               action.info.receiver === info.swapper)
outputTransfer(actions, info) ==
    find({i \in DOMAIN actions : /\ actions[i].type = "TOKEN_TRANSFER"
                                 /\ actions[i].receiver = info.swapper})

LegsInit ==
    /\ script = "legs"
    /\ env = [SOL_SECRET |-> "valid", LI_FI_API |-> "present"]
    /\ pc = "analyzeTransaction"
    /\ calls = <<>>
    /\ log = {}
    /\ input \in ActionLists
    /\ params = UNSET
    /\ hasConnection = <<>>
    /\ quote = UNSET
    /\ retries = 0
    /\ blockhash = NONE
    /\ transaction = UNSET
    /\ signature = UNSET
    /\ accepted = 0
    /\ height = 0
    /\ submitHeight = 0
    /\ swapResult = [outcome |-> NONE, value |-> UNSET]
    /\ error = NoError
    /\ rlClosed = FALSE

\* analyzeTransaction from the search for the swap to the test of the two
\* legs: what was found (positions in the list) and whether the comparison
\* is computed
FindLegs ==
    /\ script = "legs" /\ pc = "analyzeTransaction"
    /\ LET s == swapAction(input)
           i == IF s = 0 THEN 0 ELSE inputTransfer(input, input[s])
           o == IF s = 0 THEN 0 ELSE outputTransfer(input, input[s])
       IN  /\ calls' = Append(calls, Event("find", input,
                    [swapAction |-> s, inputTransfer |-> i, outputTransfer |-> o,
                     compared |-> s # 0 /\ i # 0 /\ o # 0]))
           /\ log' = log \cup (IF s = 0 THEN {"No swap action found in transaction"}
                                ELSE {"Swap Details:"})
                         \cup (IF s # 0 /\ i # 0 /\ o # 0 THEN {"Token Transfers:"}
                               ELSE {})
    /\ pc' = "done"
    /\ UNCHANGED <<script, env, input, params, hasConnection, quote, retries, blockhash,
                   transaction, signature, accepted, height, submitHeight, swapResult,
                   error, rlClosed>>

LegsNext == FindLegs

LegsSpec == LegsInit /\ [][LegsNext]_vars

-----------------------------------------------------------------------------
(* JS Numbers as they are: IEEE 754 binary64.  A positive Number is a 53-bit
   mantissa and an exponent, m * 2^e, and every operation returns the double
   nearest to the exact result (ties to the even mantissa).  Mantissas and
   the intermediate products and quotients are natural numbers kept as
   sequences of 15-bit limbs, least significant first. *)

\* bits of a limb, and 2^15
LimbBits == 15

LimbBase == 2^LimbBits

\* bits of the mantissa of a double
MantissaBits == 53

RECURSIVE Pow2(_)
Pow2(k) == IF k = 0 THEN 1 ELSE 2 * Pow2(k - 1)

Limb(a, i) == IF i \in DOMAIN a THEN a[i] ELSE 0

Max(S) == CHOOSE x \in S : \A y \in S : y <= x

\* a without its leading zero limbs
BigNorm(a) ==
    LET nz == {i \in DOMAIN a : a[i] # 0}
    IN  IF nz = {} THEN <<>> ELSE SubSeq(a, 1, Max(nz))

\* -1, 0, 1 as a < b, a = b, a > b
BigCmp(a, b) ==
    LET diff == {i \in 1..(Len(a) + Len(b)) : Limb(a, i) # Limb(b, i)}
    IN  IF diff = {} THEN 0
        ELSE IF Limb(a, Max(diff)) > Limb(b, Max(diff)) THEN 1 ELSE -1

\* a * k + c for a limb k and a small c
RECURSIVE BigMulAddFrom(_, _, _, _)
BigMulAddFrom(a, k, c, i) ==
    IF i > Len(a)
    THEN (IF c = 0 THEN <<>>
          ELSE <<c % LimbBase>> \o BigMulAddFrom(a, k, c \div LimbBase, i))
    ELSE LET v == a[i] * k + c
         IN  <<v % LimbBase>> \o BigMulAddFrom(a, k, v \div LimbBase, i + 1)

BigMulAdd(a, k, c) == BigMulAddFrom(a, k, c, 1)

BigFromInt(n) == BigMulAdd(<<>>, 0, n)

RECURSIVE BigAddFrom(_, _, _, _)
BigAddFrom(a, b, c, i) ==
    IF i > Len(a) /\ i > Len(b) THEN (IF c = 0 THEN <<>> ELSE <<c>>)
    ELSE LET v == Limb(a, i) + Limb(b, i) + c
         IN  <<v % LimbBase>> \o BigAddFrom(a, b, v \div LimbBase, i + 1)

BigAdd(a, b) == BigAddFrom(a, b, 0, 1)

\* a - b, a >= b
RECURSIVE BigSubFrom(_, _, _, _)
BigSubFrom(a, b, borrow, i) ==
    IF i > Len(a) THEN <<>>
    ELSE LET v == a[i] - Limb(b, i) - borrow
         IN  <<(v + LimbBase) % LimbBase>>
             \o BigSubFrom(a, b, IF v < 0 THEN 1 ELSE 0, i + 1)

BigSub(a, b) == BigNorm(BigSubFrom(a, b, 0, 1))

\* a * b
RECURSIVE BigMulFrom(_, _, _)
BigMulFrom(a, b, i) ==
    IF i > Len(b) THEN <<>>
    ELSE BigAdd(BigMulAdd(a, b[i], 0), <<0>> \o BigMulFrom(a, b, i + 1))

BigMul(a, b) == BigNorm(BigMulFrom(a, b, 1))

\* number of bits of a
BitLen(a) ==
    LET n == BigNorm(a)
    IN  IF n = <<>> THEN 0
        ELSE (Len(n) - 1) * LimbBits
             + Max({k \in 1..LimbBits : n[Len(n)] >= Pow2(k - 1)})

\* bit i of a (bit 0 is the least significant; 0 outside)
BitAt(a, i) ==
    IF i < 0 THEN 0
    ELSE (Limb(a, i \div LimbBits + 1) \div Pow2(i % LimbBits)) % 2

\* floor(a / 2^k)
BigShiftRight(a, k) ==
    LET w == k \div LimbBits
        b == k % LimbBits
    IN  BigNorm([j \in 1..Len(a) |->
                    Limb(a, j + w) \div Pow2(b)
                    + (Limb(a, j + w + 1) % Pow2(b)) * Pow2(LimbBits - b)])

\* a * 2^k
BigShiftLeft(a, k) ==
    [j \in 1..(k \div LimbBits) |-> 0] \o BigMulAdd(a, Pow2(k % LimbBits), 0)

\* the largest g < 32 with g * unit * d <= r
BigDigitPart(r, d, unit) ==
    Max({g \in 0..31 : BigCmp(BigMulAdd(d, g * unit, 0), r) <= 0})

\* one limb of a quotient: the largest digit with digit * d <= r, found five
\* bits at a time, and what is left of r
BigDigit(r, d) ==
    LET g1 == BigDigitPart(r, d, 1024)
        r1 == BigSub(r, BigMulAdd(d, g1 * 1024, 0))
        g2 == BigDigitPart(r1, d, 32)
        r2 == BigSub(r1, BigMulAdd(d, g2 * 32, 0))
        g3 == BigDigitPart(r2, d, 1)
    IN  [r |-> BigSub(r2, BigMulAdd(d, g3, 0)), digit |-> g1 * 1024 + g2 * 32 + g3]

\* long division of n by d, from limb i of n down: r is left of the limbs
\* above, q is their quotient
RECURSIVE BigDivFrom(_, _, _, _, _)
BigDivFrom(n, d, i, r, q) ==
    IF i = 0 THEN [q |-> q, r |-> r]
    ELSE LET step == BigDigit(BigNorm(<<n[i]>> \o r), d)
         IN  IF step.digit = 0 /\ q = <<>>
             THEN BigDivFrom(n, d, i - 1, step.r, q)
             ELSE BigDivFrom(n, d, i - 1, step.r, <<step.digit>> \o q)

\* floor(n / d) and the remainder
BigDiv(n, d) == BigDivFrom(n, d, Len(n), <<>>, <<>>)

\* the double nearest to q * 2^e, q > 0, or to a little more than that if
\* inexact: ties go to the even mantissa
RoundToDouble(q, inexact, e) ==
    LET k == BitLen(q) - MantissaBits
        m == IF k >= 0 THEN BigShiftRight(q, k) ELSE BigShiftLeft(q, -k)
        up == /\ BitAt(q, k - 1) = 1
              /\ \/ inexact
                 \/ \E i \in 0..(k - 2) : BitAt(q, i) = 1
                 \/ BitAt(q, k) = 1
        m1 == IF up THEN BigMulAdd(m, 1, 1) ELSE m
    IN  IF BitLen(m1) > MantissaBits
        THEN [m |-> BigShiftRight(m1, 1), e |-> e + k + 1]
        ELSE [m |-> BigNorm(m1), e |-> e + k]

\* the Number 0
DoubleZero == [m |-> <<>>, e |-> 0]

\* Number(amount) of a natural amount
Double(n) == IF n = 0 THEN DoubleZero ELSE RoundToDouble(BigFromInt(n), FALSE, 0)

\* x / y: the quotient of the mantissas is taken to 60 bits or more
\* (y is not 0)
DoubleDiv(x, y) ==
    LET s == 4 * LimbBits
        d == BigDiv(BigShiftLeft(x.m, s), y.m)
    IN  IF x = DoubleZero \/ y = DoubleZero THEN DoubleZero
        ELSE RoundToDouble(d.q, BigNorm(d.r) # <<>>, x.e - y.e - s)

\* x * y
DoubleMul(x, y) ==
    IF x = DoubleZero \/ y = DoubleZero THEN DoubleZero
    ELSE RoundToDouble(BigMul(x.m, y.m), FALSE, x.e + y.e)

\* Math.pow(10, k)
DoublePow10(k) ==
    IF k >= 0 THEN Double(Pow10(k)) ELSE DoubleDiv(Double(1), Double(Pow10(-k)))

\* x.toFixed(6), as the integer n for which n / 10^6 is nearest to x (the
\* larger n of two)
DoubleToFixed6(x) ==
    LET n == BigMulAdd(BigMulAdd(x.m, 1000, 0), 1000, 0)
    IN  IF x = DoubleZero THEN <<>>
        ELSE IF x.e >= 0 THEN BigNorm(BigShiftLeft(n, x.e))
        ELSE BigNorm(BigMulAdd(BigShiftRight(n, -x.e), 1, BitAt(n, -x.e - 1)))

\* variant: the ratio of the raw amounts, decimals ignored
effectiveRateDoubleRaw(q) == DoubleDiv(Double(q.toAmount), Double(q.fromAmount))

\* logQuoteDetails, the Rate line, as the doubles of the code
effectiveRateDouble(q) ==
    DoubleMul(DoubleDiv(Double(q.toAmount), Double(q.fromAmount)),
              DoublePow10(q.fromDecimals - q.toDecimals))

\* analyzeTransaction: quoteRate, as the doubles of the code
quoteRateDouble(q) ==
    DoubleDiv(DoubleDiv(Double(q.toAmount), DoublePow10(q.toDecimals)),
              DoubleDiv(Double(q.fromAmount), DoublePow10(q.fromDecimals)))

\* analyzeTransaction: inputAmount, outputAmount, actualRate, as the doubles
\* of the code
actualRateDouble(q, t) ==
    LET inputAmount == DoubleDiv(Double(t.input), DoublePow10(q.fromDecimals))
        outputAmount == DoubleDiv(Double(t.output), DoublePow10(q.toDecimals))
    IN  DoubleDiv(outputAmount, inputAmount)

\* quotes with fromAmount > 0: three input amounts against four output
\* amounts, for tokens of 6 and 9 decimals
FloatQuotes ==
    [fromAmount : {10000000, 70000000, 30000}, fromDecimals : {6, 9},
     toAmount : {9950000, 10000000, 3330000, 7000}, toDecimals : {6, 9}]

\* the legs of the finalized transaction: the quoted amounts, or less out
FloatTransfers(q) ==
    {[input |-> q.fromAmount, output |-> q.toAmount],
     [input |-> 10000000, output |-> 9900000]}

FloatInit ==
    /\ script = "float"
    /\ env = [SOL_SECRET |-> "valid", LI_FI_API |-> "present"]
    /\ pc = "logQuoteDetails"
    /\ calls = <<>>
    /\ log = {}
    /\ quote \in FloatQuotes
    /\ input \in [transfers : FloatTransfers(quote)]
    /\ params = UNSET
    /\ hasConnection = <<>>
    /\ retries = 0
    /\ blockhash = NONE
    /\ transaction = UNSET
    /\ signature = UNSET
    /\ accepted = 0
    /\ height = 0
    /\ submitHeight = 0
    /\ swapResult = [outcome |-> NONE, value |-> UNSET]
    /\ error = NoError
    /\ rlClosed = FALSE

\* logQuoteDetails(quote): the Rate line
FloatLogQuoteRate ==
    /\ script = "float" /\ pc = "logQuoteDetails"
    /\ calls' = Append(calls, Event("logQuoteDetails", quote,
                    [value |-> effectiveRateDouble(quote),
                     text |-> DoubleToFixed6(effectiveRateDouble(quote)),
                     exact |-> effectiveRate(quote)]))
    /\ log' = log \cup {"=== Li.Fi Quote Details ==="}
    /\ pc' = "compareRates"
    /\ ArithUnchanged

\* analyzeTransaction: the rate comparison of quote and transfers
FloatCompareRates ==
    /\ script = "float" /\ pc = "compareRates"
    /\ calls' = Append(calls, Event("compareRates", input.transfers,
                    [quoteRate |-> quoteRateDouble(quote),
                     actualRate |-> actualRateDouble(quote, input.transfers),
                     text |-> DoubleToFixed6(quoteRateDouble(quote)),
                     exact |-> quoteRate(quote)]))
    /\ log' = log \cup {"Rate Comparison:"}
    /\ pc' = "done"
    /\ ArithUnchanged

FloatNext ==
    \/ FloatLogQuoteRate
    \/ FloatCompareRates

FloatSpec == FloatInit /\ [][FloatNext]_vars

-----------------------------------------------------------------------------
(* getQuote of test-swap.js on the answer "no quote available" (code 1002):
   the lines it logs for errorDetails.errors before it raises, in order.
   The error object has the provider's shape: filteredOut is a list of paths
   with a reason, failed a list of paths whose subpaths object maps a name to
   a list of sub-paths with a message; errors, filteredOut and failed may each
   be absent. *)

\* the longest filteredOut and failed lists of the model
MaxPaths == 2

Reasons == {"reason1", "reason2"}

\* Object.values(path.subpaths) of a failed path, in the order of the keys
SubpathValues ==
    {<<>>,
     <<<<[message |-> "message1"]>>>>,
     <<<<[message |-> "message1"], [message |-> "message2"]>>>>,
     <<<<[message |-> "message2"]>>, <<[message |-> "message1"]>>>>,
     <<<<>>, <<[message |-> "message2"]>>>>}

\* lists of at most MaxPaths elements of S
ListsOf(S) == UNION {[1..n -> S] : n \in 0..MaxPaths}

\* errorDetails.errors: absent, or filteredOut and failed, each absent or a
\* list
ErrorDetails ==
    {[present |-> FALSE,
      filteredOut |-> [present |-> FALSE, paths |-> <<>>],
      failed |-> [present |-> FALSE, paths |-> <<>>]]}
    \cup [present : {TRUE},
          filteredOut : [present : {FALSE}, paths : {<<>>}]
                        \cup [present : {TRUE}, paths : ListsOf([reason : Reasons])],
          failed : [present : {FALSE}, paths : {<<>>}]
                   \cup [present : {TRUE}, paths : ListsOf([subpaths : SubpathValues])]]

\* writeToLog(`- ${text}`)
ItemLine(text) == <<"- ", text>>

\* errorDetails.errors.filteredOut.forEach(path => writeToLog(`- ${path.reason}`))
filteredOutLines(paths) == [i \in DOMAIN paths |-> ItemLine(paths[i].reason)]

\* subpaths.forEach(subpath => writeToLog(`- ${subpath.message}`))
subpathLines(subpaths) == [j \in DOMAIN subpaths |-> ItemLine(subpaths[j].message)]

\* Object.values(path.subpaths).forEach(subpaths => ...), from value k on
RECURSIVE subpathsLinesFrom(_, _)
subpathsLinesFrom(values, k) ==
    IF k > Len(values) THEN <<>>
    ELSE subpathLines(values[k]) \o subpathsLinesFrom(values, k + 1)

\* variant: only the first value of path.subpaths is logged
failedPathLinesFirstOnly(path) ==
    IF path.subpaths = <<>> THEN <<>> ELSE subpathLines(path.subpaths[1])

\* the lines of one failed path
failedPathLines(path) == subpathsLinesFrom(path.subpaths, 1)

\* errorDetails.errors.failed.forEach(path => ...), from path i on
RECURSIVE failedLinesFrom(_, _)
failedLinesFrom(paths, i) ==
    IF i > Len(paths) THEN <<>>
    ELSE failedPathLines(paths[i]) \o failedLinesFrom(paths, i + 1)

\* the branch errorDetails.code === 1002
noQuoteLines(errors) ==
    <<<<"! No available quotes">>>>
    \o (IF errors.present /\ errors.filteredOut.present
        THEN <<<<"Filtered out paths:">>>> \o filteredOutLines(errors.filteredOut.paths)
        ELSE <<>>)
    \o (IF errors.present /\ errors.failed.present
        THEN <<<<"Failed paths:">>>> \o failedLinesFrom(errors.failed.paths, 1)
        ELSE <<>>)

NoQuoteInit ==
    /\ script = "noQuote"
    /\ env = [SOL_SECRET |-> "valid", LI_FI_API |-> "present"]
    /\ pc = "getQuote"
    /\ calls = <<>>
    /\ log = {}
    /\ input \in [errors : ErrorDetails]
    /\ params = UNSET
    /\ hasConnection = <<>>
    /\ quote = UNSET
    /\ retries = 0
    /\ blockhash = NONE
    /\ transaction = UNSET
    /\ signature = UNSET
    /\ accepted = 0
    /\ height = 0
    /\ submitHeight = 0
    /\ swapResult = [outcome |-> NONE, value |-> UNSET]
    /\ error = NoError
    /\ rlClosed = FALSE

\* getQuote answered with HTTP 404 and {code: 1002, errors}: the lines of the
\* branch, then throw new Error(`HTTP error! status: ...`), then the catch
\* block
NoQuoteGetQuote ==
    /\ script = "noQuote" /\ pc = "getQuote"
    /\ LET resp == [status |-> 404, body |-> "json", code |-> 1002, data |-> NONE]
           r == getQuote(resp)
       IN  /\ calls' = Append(calls, Event("GET /quote", input.errors,
                            [lines |-> noQuoteLines(input.errors),
                             raised |-> r.outcome = "throw"]))
           /\ log' = log \cup r.lines
           /\ error' = r.value
    /\ pc' = "done"
    /\ UNCHANGED <<script, env, input, params, hasConnection, quote, retries, blockhash,
                   transaction, signature, accepted, height, submitHeight, swapResult,
                   rlClosed>>

NoQuoteNext == NoQuoteGetQuote

NoQuoteSpec == NoQuoteInit /\ [][NoQuoteNext]_vars

-----------------------------------------------------------------------------
(* Properties *)

\* the attempts of op that failed, and the number of an attempt
FailedOf(op) == {i \in Ops(op) : calls[i].res # "ok"}

AttemptNo(op, i) == Cardinality({j \in Ops(op) : j <= i})

\* the await executeSwap is suspended at while it retries op
LoopPc(op) == IF op = "getLatestBlockhash" THEN "blockhash" ELSE "send"

\* an affirmative answer: yes or y in any letter case
IsYes(a) ==
    \/ Len(a) = 1 /\ a[1] \in {"y", "Y"}
    \/ Len(a) = 3 /\ a[1] \in {"y", "Y"} /\ a[2] \in {"e", "E"} /\ a[3] \in {"s", "S"}

\* C1: in executeSwap, blockhash acquisition and broadcast each make at most
\* 3 attempts; a failed 1st or 2nd attempt is followed by the delay and a
\* further attempt, and executeSwap throws out of a retry loop exactly on the
\* 3rd failed attempt.
C1_RetryBudget ==
    script = "swap" =>
        \A op \in {"getLatestBlockhash", "sendRawTransaction"} :
            /\ Count(op) <= 3
            /\ \A i \in FailedOf(op) :
                IF AttemptNo(op, i) < 3
                THEN /\ i < Len(calls)
                     /\ calls[i + 1].op = "delay"
                     /\ IF i + 2 <= Len(calls)
                        THEN calls[i + 2].op = op
                        ELSE pc = LoopPc(op) /\ swapResult.outcome = NONE
                ELSE /\ i = Len(calls)
                     /\ pc = "done"
                     /\ swapResult.outcome = "throw"
                     /\ swapResult.value.msg \in {"getLatestBlockhash failed",
                                                   "sendRawTransaction failed"}
            /\ (swapResult.outcome = "throw"
                /\ swapResult.value.msg = (IF op = "getLatestBlockhash"
                                           THEN "getLatestBlockhash failed"
                                           ELSE "sendRawTransaction failed"))
               => Cardinality(FailedOf(op)) = 3

\* C1 witness: the blockhash came at the 3rd attempt and the broadcast failed
\* three times, which made executeSwap throw
C1_Witness ==
    /\ script = "swap"
    /\ Cardinality(FailedOf("getLatestBlockhash")) = 2
    /\ Cardinality(FailedOf("sendRawTransaction")) = 3
    /\ swapResult.outcome = "throw"

\* C2: in test-swap.js and the test-transaction script, blockhash
\* acquisition, signing and broadcast happen only after the operator answered
\* yes or y (any letter case) to the confirmation prompt; any other answer
\* ends the run, logged as cancelled, with nothing signed or broadcast; the
\* run is logged as cancelled only then; and no prompt follows a successful
\* broadcast.
C2_ConfirmationGate ==
    script \in {"swap", "tx"} =>
        /\ \A i \in DOMAIN calls :
            calls[i].op \in {"getLatestBlockhash", "sign", "sendRawTransaction"}
            => \E j \in 1..(i - 1) :
                   calls[j].op = "askConfirmation" /\ IsYes(calls[j].res)
        /\ \A j \in Ops("askConfirmation") :
            ~IsYes(calls[j].res)
            => /\ j = Len(calls)
               /\ pc = "done"
               /\ Count("sign") = 0
               /\ Count("sendRawTransaction") = 0
               /\ {"X Transaction cancelled by user", "Transaction cancelled by user"}
                     \cap log # {}
        /\ {"X Transaction cancelled by user", "Transaction cancelled by user"} \cap log # {}
            => \E j \in Ops("askConfirmation") : ~IsYes(calls[j].res)
        /\ \A i \in Ops("sendRawTransaction") :
            calls[i].res = "ok"
            => \A j \in (i + 1)..Len(calls) :
                   calls[j].op \notin {"prompt", "askConfirmation"}

\* C2 witness: the operator answered YES and the run went on through a
\* successful broadcast to its end
C2_Witness ==
    /\ script = "tx"
    /\ pc = "done"
    /\ \E j \in Ops("askConfirmation") : calls[j].res = <<"Y", "E", "S">>
    /\ \E i \in Ops("sendRawTransaction") : calls[i].res = "ok"

\* C3: in run of test-swap.js, when checkConnection returned false the run
\* has ended with the no-connection line logged, no quote request issued and
\* nothing signed or broadcast.
C3_NoConnectionHalts ==
    (script = "swap" /\ hasConnection = <<FALSE>>) =>
        /\ pc = "done"
        /\ "! No connection found between tokens" \in log
        /\ Count("GET /quote") = 0
        /\ Count("sign") = 0
        /\ Count("sendRawTransaction") = 0

\* C3 witness: the provider answered with an empty connection list
C3_Witness ==
    /\ script = "swap"
    /\ hasConnection = <<FALSE>>
    /\ \E i \in Ops("GET /connections") : calls[i].res.body = "empty"

\* the stage of run() an external effect belongs to (the delay of a retry
\* loop belongs to the loop it is in and is left out)
Stage(op) ==
    CASE op = "prompt" -> 0
      [] op = "GET /connections" -> 1
      [] op = "GET /quote" -> 2
      [] op = "askConfirmation" -> 3
      [] op = "getVersion" -> 4
      [] op = "getLatestBlockhash" -> 5
      [] op = "deserialize" -> 6
      [] op = "sign" -> 7
      [] op = "sendRawTransaction" -> 8
      [] op = "getBlockHeight" -> 9
      [] op = "confirmTransaction" -> 10
      [] op = "GET shyft" -> 11

Staged == {i \in DOMAIN calls : calls[i].op # "delay"}

\* the effect that ends a stage successfully
EndsStage(e) ==
    CASE e.op = "prompt" -> TRUE
      [] e.op = "GET /connections" -> e.res.status = 200 /\ e.res.body = "one"
      [] e.op = "GET /quote" -> e.res.status = 200 /\ e.res.body = "quote"
      [] e.op = "askConfirmation" -> IsYes(e.res)
      [] e.op = "sendRawTransaction" -> e.res = "ok"
      [] e.op = "confirmTransaction" -> e.res = NONE
      [] OTHER -> e.res = "ok"

\* the stage whose success the stage of op waits for
Before(op) ==
    CASE op = "GET /connections" -> "prompt"
      [] op = "GET /quote" -> "GET /connections"
      [] op = "askConfirmation" -> "GET /quote"
      [] op = "getVersion" -> "askConfirmation"
      [] op = "getLatestBlockhash" -> "getVersion"
      [] op = "deserialize" -> "getLatestBlockhash"
      [] op = "sign" -> "deserialize"
      [] op = "sendRawTransaction" -> "sign"
      [] op = "getBlockHeight" -> "sendRawTransaction"
      [] op = "confirmTransaction" -> "getBlockHeight"
      [] op = "GET shyft" -> "confirmTransaction"

\* C4: in run of test-swap.js the external effects occur only in the order
\* route check, quote, operator confirmation, submit (health check,
\* blockhash, deserialize, sign, broadcast), confirmation wait, reconciliation;
\* an effect of a stage occurs only after the previous stage ended
\* successfully, so a failed stage is followed by none of the later ones.
C4_StageOrder ==
    script = "swap" =>
        /\ \A i, j \in Staged : i < j => Stage(calls[i].op) <= Stage(calls[j].op)
        /\ \A j \in Staged :
            calls[j].op # "prompt"
            => \E i \in 1..(j - 1) :
                   calls[i].op = Before(calls[j].op) /\ EndsStage(calls[i])
        /\ \A i \in Staged :
            (~EndsStage(calls[i]) /\ calls[i].op \notin {"getLatestBlockhash",
                                                        "sendRawTransaction"})
            => i = Len(calls) /\ pc = "done"

\* C4 witness: a run that went through every stage to the reconciliation
C4_Witness ==
    /\ script = "swap"
    /\ pc = "done"
    /\ \A op \in {"GET /connections", "GET /quote", "askConfirmation", "getVersion",
                  "getLatestBlockhash", "deserialize", "sign", "sendRawTransaction",
                  "getBlockHeight", "confirmTransaction", "GET shyft"} :
           Count(op) >= 1

\* C5: in executeSwap of test-swap.js, a confirmation result without error
\* makes executeSwap return the signature of the broadcast, with no failure
\* logged; a confirmation result with an on-chain error makes executeSwap
\* throw an error that carries this on-chain error, with no success logged;
\* never both.
C5_ConfirmedOrFailed ==
    script = "swap" =>
        /\ \A i \in Ops("confirmTransaction") :
            /\ calls[i].res = NONE
               => /\ swapResult.outcome = "return"
                  /\ swapResult.value = signature
                  /\ swapResult.value = calls[i].arg.signature
                  /\ "OK Transaction completed successfully!" \in log
            /\ calls[i].res \in ChainErrors
               => /\ swapResult.outcome = "throw"
                  /\ swapResult.value.msg = "Transaction failed"
                  /\ swapResult.value.detail = calls[i].res
                  /\ "! Transaction failed with error:" \in log
        /\ swapResult.outcome = "return"
           => {"! Transaction failed with error:", "X Error executing swap"} \cap log = {}
        /\ swapResult.outcome = "throw"
           => "OK Transaction completed successfully!" \notin log

\* C5 witness: the confirmation result carried an on-chain error
C5_Witness ==
    /\ script = "swap"
    /\ \E i \in Ops("confirmTransaction") : calls[i].res = "InstructionError"
    /\ swapResult.outcome = "throw"

\* C6: analyzeTransaction of test-swap.js never propagates an exception into
\* run, whatever the explorer answers; once executeSwap has returned a
\* signature the run never logs the SWAP FAILED banner and ends with the SWAP
\* COMPLETED banner.
C6_ReconcileAbsorbed ==
    script = "swap" =>
        /\ Count("GET shyft") > 0 => error = NoError /\ pc = "done"
        /\ swapResult.outcome = "return"
           => /\ "X SWAP FAILED X" \notin log
              /\ pc = "done" => "OK SWAP COMPLETED OK" \in log
              /\ pc # "done" => pc = "analyze"

\* C6 witness: the explorer answered with a malformed action list and the run
\* still completed
C6_Witness ==
    /\ script = "swap"
    /\ \E i \in Ops("GET shyft") : calls[i].res = "nullAction"
    /\ "X Error analyzing transaction" \in log
    /\ "OK SWAP COMPLETED OK" \in log

\* C7 as stated: in executeSwap of test-swap.js a malformed payload fails at
\* deserialization without a health-check request having been issued.
C7_MalformedBeforeHealthCheck ==
    script = "swap" =>
        \A i \in Ops("deserialize") :
            calls[i].res = "fail" => \A j \in 1..(i - 1) : calls[j].op # "getVersion"

\* C7 as amended: in executeSwap of test-swap.js the payload is deserialized
\* only after a successful health check and a successful blockhash
\* acquisition; a malformed payload then makes executeSwap throw at once,
\* before anything is signed or broadcast.
C7_DeserializeAfterBlockhash ==
    script = "swap" =>
        \A i \in Ops("deserialize") :
            /\ \E j \in 1..(i - 1) : calls[j].op = "getVersion" /\ calls[j].res = "ok"
            /\ calls[i - 1].op = "getLatestBlockhash" /\ calls[i - 1].res = "ok"
            /\ calls[i].arg = "malformed"
               => /\ calls[i].res = "fail"
                  /\ i = Len(calls)
                  /\ swapResult.outcome = "throw"
                  /\ swapResult.value.msg = "deserialize failed"
                  /\ Count("sign") = 0
                  /\ Count("sendRawTransaction") = 0

\* C7 witness: a malformed payload reached deserialization
C7_Witness ==
    /\ script = "swap"
    /\ \E i \in Ops("deserialize") : calls[i].arg = "malformed" /\ calls[i].res = "fail"
    /\ Count("getVersion") = 1

\* C8: in the broadcast loop of executeSwap a failed attempt that is not the
\* 3rd is followed by the fixed delay and then by a resend of the same signed
\* bytes, with no request in between that asks whether the failed attempt
\* was accepted; so an attempt the network accepted but reported as failed
\* is submitted again.
C8_ResendUnchecked ==
    script = "swap" =>
        /\ \A i \in Ops("sendRawTransaction") : calls[i].arg = serialize(transaction)
        /\ \A i \in FailedOf("sendRawTransaction") :
            AttemptNo("sendRawTransaction", i) < 3
            => /\ i < Len(calls)
               /\ calls[i + 1].op = "delay"
               /\ IF i + 2 <= Len(calls)
                  THEN /\ calls[i + 2].op = "sendRawTransaction"
                       /\ calls[i + 2].arg = calls[i].arg
                  ELSE pc = "send"

\* C8 witness: attempt k was accepted but reported as failed, and attempt k+1
\* sent the same bytes, which the network accepted again
C8_Witness ==
    /\ script = "swap"
    /\ accepted >= 2
    /\ \E i \in Ops("sendRawTransaction") :
        /\ calls[i].res = "failAccepted"
        /\ i + 2 <= Len(calls)
        /\ calls[i + 2].op = "sendRawTransaction"
        /\ calls[i + 2].arg = calls[i].arg
        /\ calls[i + 2].res # "failRejected"

\* C9: checkConnection (test-swap.js and test-quote.js) never raises to run:
\* it always returns; for a transport failure, a non-OK answer (429 included)
\* or an unparsable body it returns false with the error line logged; and it
\* returns true only for an answer with at least one connection.
C9_CheckConnectionNeverRaises ==
    script \in {"swap", "quote"} =>
        \A i \in Ops("GET /connections") :
            LET resp == calls[i].res
            IN  /\ hasConnection # <<>>
                /\ i = Len(calls) => error = NoError
                /\ (resp.status # 200 \/ resp.body = "text")
                   => /\ hasConnection = <<FALSE>>
                      /\ "X Error checking connection" \in log
                /\ hasConnection = <<TRUE>>
                   => resp.status = 200 /\ resp.body = "one"

\* C9 witness: a 429 answer whose body is not JSON was turned into false
C9_Witness ==
    /\ script = "swap"
    /\ hasConnection = <<FALSE>>
    /\ \E i \in Ops("GET /connections") :
        calls[i].res.status = 429 /\ calls[i].res.body = "text"

\* C10 as stated: whenever the route check is answered with HTTP 429 in
\* test-swap.js, the rate limit is logged and run does not log that no
\* connection was found between the tokens.
C10_RateLimitDistinct ==
    script = "swap" =>
        \A i \in Ops("GET /connections") :
            calls[i].res.status = 429
            => /\ "! Rate limit exceeded" \in log
               /\ "! No connection found between tokens" \notin log

\* the line of each kind getQuote (test-swap.js) tells apart
KindLines ==
    {"! Token not supported by Li.Fi", "! Invalid address format for target chain",
     "! No available quotes", "! Rate limit exceeded"}

\* C11 as stated: whenever getQuote failed (test-swap.js, test-quote.js, the
\* test-transaction script), it raised to run, returned no quote, and logged
\* every parameter it was called with: both chains, both tokens, the amount,
\* the source address and, where it takes one, the destination address.
C11_QuoteFailureEchoesParameters ==
    (script \in {"swap", "tx", "quote"} /\ "X Error fetching quote" \in log)
    => /\ pc = "done" /\ error # NoError /\ quote = UNSET
       /\ {"From Chain", "To Chain", "From Token", "To Token", "Amount",
           "From Address"} \subseteq log
       /\ script = "swap" => "To Address" \in log

\* C12 as stated: for every non-OK answer to getQuote of test-swap.js at most
\* one kind is logged, and every answer with HTTP status 429 is logged as
\* rate-limited.
C12_RateLimitedLogged ==
    script = "swap" =>
        \A i \in Ops("GET /quote") :
            LET resp == calls[i].res
            IN  (resp.status # 0 /\ ~IsOk(resp))
                => /\ Cardinality(log \cap KindLines) <= 1
                   /\ resp.status = 429 => "! Rate limit exceeded" \in log

\* the quote and the transfer legs of the worked example
ExampleQuote ==
    [fromAmount |-> 10000000, fromDecimals |-> 9, toAmount |-> 9950000, toDecimals |-> 6]

ExampleTransfers == [input |-> 10000000, output |-> 9900000]

\* a decimal number: sign, integer part, decimals
Decimal(neg, int, frac) == [neg |-> neg, int |-> int, frac |-> frac]

\* C13 as stated: for the example quote the logged effective rate and the
\* reconciler's quoteRate are 0.995 to 3 decimals.
C13_QuotedRateAsStated ==
    (script = "arith" /\ quote = ExampleQuote) =>
        /\ \A i \in Ops("logQuoteDetails") :
            toFixed(calls[i].res.value, 3) = Decimal(FALSE, 0, 995)
        /\ \A i \in Ops("compareRates") :
            toFixed(calls[i].res.quoteRate, 3) = Decimal(FALSE, 0, 995)

\* C13: for the quote fromAmount=10_000_000, fromDecimals=9,
\* toAmount=9_950_000, toDecimals=6 the logged effective rate
\* toAmount/fromAmount * 10^(fromDecimals-toDecimals) and the reconciler's
\* quoteRate are both 995.000 to 3 decimals (logged as 995.000000); for every
\* quote the two rates are the same number.
C13_QuotedRate ==
    script = "arith" =>
        /\ \A i \in Ops("logQuoteDetails") :
            /\ quote = ExampleQuote
               => /\ toFixed(calls[i].res.value, 3) = Decimal(FALSE, 995, 0)
                  /\ calls[i].res.text = Decimal(FALSE, 995, 0)
            /\ \A j \in Ops("compareRates") : calls[j].res.quoteRate = calls[i].res.value
        /\ \A i \in Ops("compareRates") :
            quote = ExampleQuote
            => toFixed(calls[i].res.quoteRate, 3) = Decimal(FALSE, 995, 0)

\* C13 witness: both rates of the example quote have been computed
C13_Witness ==
    /\ script = "arith"
    /\ quote = ExampleQuote
    /\ Ops("logQuoteDetails") # {}
    /\ Ops("compareRates") # {}

\* C14 as stated: for the example quote and transfers analyzeTransaction
\* computes actualRate = 0.99 (to 2 decimals) and a deviation of -0.503 % (to
\* 3 decimals).
C14_ReconciledRatesAsStated ==
    (script = "arith" /\ quote = ExampleQuote /\ input.transfers = ExampleTransfers) =>
        \A i \in Ops("compareRates") :
            /\ toFixed(calls[i].res.actualRate, 2) = Decimal(FALSE, 0, 99)
            /\ toFixed(calls[i].res.deviation, 3) = Decimal(TRUE, 0, 503)

\* C14: for an input transfer of 10_000_000 (decimals 9) and an output
\* transfer of 9_900_000 (decimals 6) against the quote
\* 10_000_000 / 9_950_000, analyzeTransaction computes actualRate = 990 and a
\* deviation of -0.503 % to 3 decimals, logged as -0.50; for every quote and
\* transfers actualRate = (output/10^toDecimals)/(input/10^fromDecimals) and
\* deviation = (actualRate - quoteRate)/quoteRate * 100.
C14_ReconciledRates ==
    script = "arith" =>
        \A i \in Ops("compareRates") :
            LET r == calls[i].res
                t == calls[i].arg
            IN  /\ r.actualRate = Div(Div(Number(t.output), MathPow10(quote.toDecimals)),
                                      Div(Number(t.input), MathPow10(quote.fromDecimals)))
                /\ r.deviation = Mul(Div(Sub(r.actualRate, r.quoteRate), r.quoteRate),
                                     Number(100))
                /\ (quote = ExampleQuote /\ t = ExampleTransfers)
                   => /\ toFixed(r.actualRate, 2) = Decimal(FALSE, 990, 0)
                      /\ toFixed(r.deviation, 3) = Decimal(TRUE, 0, 503)
                      /\ r.rateDiff = Decimal(TRUE, 0, 50)

\* C14 witness: the example transfers were reconciled against the example
\* quote
C14_Witness ==
    /\ script = "arith"
    /\ quote = ExampleQuote
    /\ \E i \in Ops("compareRates") : calls[i].arg = ExampleTransfers

\* the lines of a rate computation or comparison
RateLines ==
    {"Token Transfers:", "Rate", "=== Quote vs Actual Comparison ===", "Rate Comparison:"}

\* C15: when the explorer's answer has no action list, or a list of actions
\* none of which is of type SWAP, analyzeTransaction (test-swap.js) and
\* getTransactionInfo (test-transaction-info.js) log 'No swap action found in
\* transaction', log no rate or rate comparison, and do not raise: no error
\* is logged or caught and the run ends normally.
C15_NoSwapActionReported ==
    script \in {"swap", "info"} =>
        \A i \in Ops("GET shyft") :
            calls[i].res \in {"noActions", "noSwap"}
            => /\ "No swap action found in transaction" \in log
               /\ log \cap RateLines = {}
               /\ "X Error analyzing transaction" \notin log
               /\ "Transaction Links:" \in log
               /\ error = NoError
               /\ pc = "done"
               /\ script = "swap" => "OK SWAP COMPLETED OK" \in log

\* C15 witness: the explorer's answer to analyzeTransaction had no action
\* list
C15_Witness ==
    /\ script = "swap"
    /\ \E i \in Ops("GET shyft") : calls[i].res = "noActions"

\* explorer answers with a SWAP action and a missing transfer leg
MissingLeg == {"swapOnly", "swapInputOnly", "swapOutputOnly"}

\* C16 as stated: when a SWAP action is present and a transfer leg is
\* missing, analyzeTransaction logs no rate comparison and the log shows that
\* the reconciliation is partial: it has a line that the log of a complete
\* reconciliation does not have.
C16_MissingLegReported ==
    script = "swap" =>
        \A i \in Ops("GET shyft") :
            calls[i].res \in MissingLeg
            => /\ "Rate Comparison:" \notin log
               /\ analyzeTransaction(calls[i].res).lines
                    \ analyzeTransaction("swapBothLegs").lines # {}

\* the messages of run's early returns
EarlyReturnLines ==
    {"X Invalid Solana from address", "X Invalid Ethereum to address",
     "X Invalid Solana to address", "X Invalid amount: Must be a positive number",
     "! No connection found between tokens", "X Transaction cancelled by user"}

\* C17 as stated: a finished run of test-swap.js that did not complete the
\* swap has logged the SWAP FAILED banner, a run that did has logged the SWAP
\* COMPLETED banner and the link, and never both.
C17_EveryAbortHasBanner ==
    (script = "swap" /\ pc = "done") =>
        /\ IF swapResult.outcome = "return"
           THEN "OK SWAP COMPLETED OK" \in log /\ "Solscan link" \in log
           ELSE "X SWAP FAILED X" \in log
        /\ ~("OK SWAP COMPLETED OK" \in log /\ "X SWAP FAILED X" \in log)

\* C17: a finished run of test-swap.js has logged the SWAP FAILED banner
\* exactly if an error reached run's catch block, and the SWAP COMPLETED
\* banner, with the link to the transaction, exactly if executeSwap returned
\* a signature; never both; a run that ended by an early return (invalid
\* address or amount, no connection, confirmation declined) has logged its
\* own message and neither banner; no banner is logged before the run ends.
C17_Banners ==
    script = "swap" =>
        IF pc = "done"
        THEN /\ "X SWAP FAILED X" \in log <=> error # NoError
             /\ "OK SWAP COMPLETED OK" \in log <=> swapResult.outcome = "return"
             /\ "OK SWAP COMPLETED OK" \in log => "Solscan link" \in log
             /\ ~("OK SWAP COMPLETED OK" \in log /\ "X SWAP FAILED X" \in log)
             /\ (error = NoError /\ swapResult.outcome # "return")
                => /\ log \cap EarlyReturnLines # {}
                   /\ Count("sendRawTransaction") = 0
        ELSE "X SWAP FAILED X" \notin log /\ "OK SWAP COMPLETED OK" \notin log

\* C17 witness: the operator declined, the run ended without a banner
C17_Witness ==
    /\ script = "swap"
    /\ pc = "done"
    /\ "X Transaction cancelled by user" \in log
    /\ "X SWAP FAILED X" \notin log
    /\ "OK SWAP COMPLETED OK" \notin log

\* the status polls made so far
Polls == Ops("GET /status")

\* C18: the bridge script polls the status endpoint only when fromChain and
\* toChain differ and only after confirmTransaction reported no error; a
\* poll is followed by another one exactly if it returned a status other than
\* DONE and FAILED; however many polls returned such a status the script is
\* still polling; and the run has ended after a poll exactly if that poll
\* returned DONE or FAILED or raised.
C18_StatusPolling ==
    (script = "bridge" /\ Polls # {}) =>
        LET last == calls[Len(calls)]
        IN  /\ params.fromChain # params.toChain
            /\ \A i \in Polls :
                /\ \E j \in Ops("confirmTransaction") : j < i /\ calls[j].res = NONE
                /\ \A j \in Ops("confirmTransaction") : j < i
                /\ i < Len(calls)
                   => /\ calls[i].res \notin {"DONE", "FAILED", "transport", "httpError",
                                              "text", "null"}
                      /\ calls[i + 1].op = "GET /status"
            /\ last.op = "GET /status"
            /\ IF last.res \in {"DONE", "FAILED"}
               THEN pc = "done" /\ error = NoError
               ELSE IF last.res \in {"transport", "httpError", "text", "null"}
               THEN pc = "done" /\ error # NoError
               ELSE pc = "brStatus"

\* C18 witness: every poll the model follows returned PENDING and the script
\* is about to poll again
C18_Witness ==
    /\ script = "bridge"
    /\ pc = "brStatus"
    /\ Cardinality(Polls) = MaxPolls
    /\ \A i \in Polls : calls[i].res = "PENDING"

C20_FormatParseRoundTrip ==
    script = "arith" =>
        \A i \in Ops("formatAmountToSmallestUnit") :
            calls[i].res = DigitsOf(input.amount)

\* the process has not gone past its module code
NotStarted == pc \in {"init", "exited"} /\ calls = <<>>

\* C21 as stated: in every script that contacts the quote provider or signs,
\* the process exits at startup, before any request and before any prompt,
\* when the signing secret or the provider API key is absent.
C21_SecretAndKeyRequiredEverywhere ==
    script \in WalletScripts /\ pc # "init"
    /\ (env.SOL_SECRET = "absent" \/ env.LI_FI_API = "absent")
        => pc = "exited" /\ calls = <<>>

\* C21: every script that contacts the quote provider or signs exits at
\* startup, before any request and before any prompt, when the signing secret
\* is absent or does not make a wallet; test-swap.js exits in the same way
\* when the provider API key is absent, while the other scripts never read the
\* key and start without it.
C21_SecretRequiredKeyInSwapOnly ==
    /\ script \in WalletScripts /\ env.SOL_SECRET # "valid" => NotStarted
    /\ script = "swap" /\ env.LI_FI_API = "absent" => NotStarted
    /\ pc = "exited"
        => /\ script \in WalletScripts
           /\ env.SOL_SECRET # "valid" \/ (script = "swap" /\ env.LI_FI_API = "absent")
           /\ \/ log = {"Error: SOL_SECRET is not set in .env file"}
              \/ log = {"Error: LI_FI_API is not set in .env file"}
              \/ log = {"Error initializing Solana wallet"}
           /\ ~rlClosed
    /\ script \notin {"swap", "arith"} /\ env.SOL_SECRET = "valid" => pc # "exited"

\* C21 witness: test-swap.js was started with a secret key and without the
\* API key, and has exited
C21_Witness ==
    /\ script = "swap"
    /\ env = [SOL_SECRET |-> "valid", LI_FI_API |-> "absent"]
    /\ pc = "exited"
    /\ calls = <<>>

\* C22: a run of test-quote.js never executes a transaction: whether the
\* route was found or not and whether the quote succeeded or failed, it issues
\* the route-check request and the quote request (each once at most) and
\* nothing else; it never deserializes, signs, broadcasts or waits for a
\* confirmation.
C22_QuoteScriptNeverExecutes ==
    script = "quote" =>
        /\ \A i \in DOMAIN calls : calls[i].op \in {"GET /connections", "GET /quote"}
        /\ Count("GET /connections") <= 1
        /\ Count("GET /quote") <= 1
        /\ \A i \in Ops("GET /quote") : i = 2 /\ calls[1].op = "GET /connections"
        /\ blockhash = NONE /\ transaction = UNSET /\ signature = UNSET
        /\ accepted = 0

\* C22 witness: the route check found no route, the quote came back with a
\* transaction ready to sign, and the run is over
C22_Witness ==
    /\ script = "quote"
    /\ pc = "done"
    /\ hasConnection = <<FALSE>>
    /\ error = NoError
    /\ Ops("GET /quote") # {}
    /\ quote.data = "good"

\* C23 as stated: in the scenarios script a delay separates every two
\* consecutive quote requests of runTests, whether the earlier scenario
\* succeeded or failed.
C23_DelayBetweenScenarios ==
    script = "scenarios" =>
        \A i, j \in Ops("GET /quote") :
            i < j => \E k \in Ops("delay") :
                        i < k /\ k < j /\ calls[k].arg = ScenarioDelay

C25_SignedOnceSameBytes ==
    script = "swap" =>
        /\ Count("deserialize") <= 1
        /\ Count("sign") <= 1
        /\ \A i \in Ops("sign") : i > 1 /\ calls[i - 1].op = "deserialize"
                                  /\ calls[i - 1].res = "ok"
        /\ \A i \in Ops("sendRawTransaction") :
            /\ \E j \in Ops("sign") : j < i
            /\ \A k \in Ops("sendRawTransaction") : calls[k].arg = calls[i].arg
            /\ calls[i].arg[2] = {WalletAddress}

\* C25 witness: three broadcast attempts were made in one call
C25_Witness ==
    /\ script = "swap"
    /\ Count("sendRawTransaction") = 3
    /\ Count("sign") = 1
    /\ pc = "blockHeight"

\* C26: in executeSwap the retry budget of the broadcast is independent of
\* the blockhash retries: however many of its 3 attempts the blockhash
\* acquisition used before it succeeded, the broadcast gets 3 attempts of its
\* own, so one call makes at most 3 blockhash requests and at most 3
\* broadcast requests.
C26_IndependentBudgets ==
    script = "swap" =>
        /\ Count("getLatestBlockhash") <= 3
        /\ Count("sendRawTransaction") <= 3
        /\ pc = "send"
            => /\ retries = 3 - Cardinality(FailedOf("sendRawTransaction"))
               /\ retries >= 1
               /\ Count("sendRawTransaction") = Cardinality(FailedOf("sendRawTransaction"))
        /\ swapResult.outcome = "throw" /\ Ops("sendRawTransaction") # {}
           /\ FailedOf("sendRawTransaction") = Ops("sendRawTransaction")
            => Count("sendRawTransaction") = 3

\* C26 witness: the blockhash came with the third request, and the broadcast
\* still made three attempts, the third of which went through
C26_Witness ==
    /\ script = "swap"
    /\ Cardinality(FailedOf("getLatestBlockhash")) = 2
    /\ Count("getLatestBlockhash") = 3
    /\ Cardinality(FailedOf("sendRawTransaction")) = 2
    /\ Count("sendRawTransaction") = 3
    /\ signature # UNSET

\* the two retry loops of executeSwap
RetriedOps == {"getLatestBlockhash", "sendRawTransaction"}

\* C27: in both retry loops of executeSwap the attempts come one after the
\* other with exactly one fixed delay (1000 ms) between two consecutive
\* attempts: a delay follows the 1st and the 2nd failed attempt, and no delay
\* follows a successful attempt or the 3rd failed attempt.
C27_OneDelayBetweenAttempts ==
    script = "swap" =>
        /\ \A op \in RetriedOps : \A i \in Ops(op) :
            /\ \A j \in Ops(op) :
                (i < j /\ ~\E k \in Ops(op) : i < k /\ k < j)
                    => /\ j = i + 2
                       /\ calls[i + 1] = Event("delay", 1000, NONE)
                       /\ calls[i].res # "ok"
            /\ i < Len(calls)
                => (calls[i + 1].op = "delay"
                        <=> calls[i].res # "ok" /\ AttemptNo(op, i) \in {1, 2})
            /\ i = Len(calls) /\ calls[i].res # "ok" => AttemptNo(op, i) = 3
        /\ \A k \in Ops("delay") :
            /\ k > 1
            /\ calls[k - 1].op \in RetriedOps
            /\ calls[k - 1].res # "ok"
            /\ calls[k].arg = 1000
            /\ IF k < Len(calls) THEN calls[k + 1].op = calls[k - 1].op
               ELSE pc = LoopPc(calls[k - 1].op)

\* C27 witness: both loops failed twice and succeeded at the third attempt,
\* so four delays were taken, and none after the successful attempts
C27_Witness ==
    /\ script = "swap"
    /\ Count("delay") = 4
    /\ Count("getLatestBlockhash") = 3
    /\ Count("sendRawTransaction") = 3
    /\ pc = "confirm"

\* the broadcast attempts that returned a signature
Broadcast == {i \in Ops("sendRawTransaction") : calls[i].res = "ok"}

\* C28: in one run of test-swap.js at most one broadcast attempt succeeds and
\* no broadcast attempt is made after a successful one; the confirmation wait
\* is invoked at most once, only after a successful broadcast, with the
\* signature that broadcast returned and with the blockhash that the
\* blockhash acquisition of the same run returned, never an undefined one.
C28_OneBroadcastOneWait ==
    script = "swap" =>
        /\ Cardinality(Broadcast) <= 1
        /\ \A i \in Broadcast : \A j \in Ops("sendRawTransaction") : j <= i
        /\ Count("confirmTransaction") <= 1
        /\ \A c \in Ops("confirmTransaction") :
            /\ \E i \in Broadcast :
                /\ i < c
                /\ calls[c].arg.signature = SignatureOf(calls[i].arg)
            /\ \E g \in Ops("getLatestBlockhash") : g < c /\ calls[g].res = "ok"
            /\ calls[c].arg.blockhash = blockhash
            /\ calls[c].arg.blockhash # NONE

\* C28 witness: the confirmation wait has been invoked after a broadcast that
\* went through at its second attempt
C28_Witness ==
    /\ script = "swap"
    /\ Count("confirmTransaction") = 1
    /\ Count("sendRawTransaction") = 2
    /\ Cardinality(Broadcast) = 1

\* C29 as stated: in test-swap.js, once a broadcast attempt has succeeded, the
\* run ends with the SWAP FAILED banner only if the confirmation wait
\* reported an on-chain error for the transaction; a failed block-height read
\* or a confirmation wait that raises or times out does not make it a
\* reported failure with the reconciliation skipped.
C29_FailedOnlyOnChainError ==
    script = "swap" /\ Broadcast # {} /\ "X SWAP FAILED X" \in log
        => \E c \in Ops("confirmTransaction") : calls[c].res \in ChainErrors

\* C29: in test-swap.js, once a broadcast attempt has succeeded, the run ends
\* with the SWAP FAILED banner exactly when the block-height read failed, the
\* confirmation wait raised (or timed out), or the confirmation wait reported
\* an on-chain error; each of them is rethrown by executeSwap, so that the
\* reconciliation is skipped.  Otherwise the reconciliation runs and the run
\* ends with the SWAP COMPLETED banner.
C29_FailedAfterBroadcast ==
    script = "swap" /\ Broadcast # {} /\ pc = "done"
        => LET failed ==
                   \/ \E h \in Ops("getBlockHeight") : calls[h].res = "fail"
                   \/ \E c \in Ops("confirmTransaction") :
                        calls[c].res \in {"raise"} \cup ChainErrors
           IN  /\ "X SWAP FAILED X" \in log <=> failed
               /\ failed => /\ Count("GET shyft") = 0
                            /\ "X Error executing swap" \in log
                            /\ swapResult.outcome = "throw"
                            /\ "OK SWAP COMPLETED OK" \notin log
               /\ ~failed => /\ Count("GET shyft") = 1
                             /\ "OK SWAP COMPLETED OK" \in log

\* C29 witness: the transaction was broadcast, the block-height read failed
\* and the run ended with the failure banner
C29_Witness ==
    /\ script = "swap"
    /\ Broadcast # {}
    /\ pc = "done"
    /\ \E h \in Ops("getBlockHeight") : calls[h].res = "fail"
    /\ "X SWAP FAILED X" \in log
    /\ Count("confirmTransaction") = 0

\* what executeSwap does after the health check
AfterHealthCheck == {"getLatestBlockhash", "deserialize", "sign", "sendRawTransaction"}

\* C30: executeSwap requests a blockhash only if the quote carries
\* transactionRequest.data and the health check succeeded: with missing
\* transaction data it throws before any network call, and with a failed
\* health check it throws before any blockhash request, deserialization,
\* signing or broadcast.
C30_BlockhashAfterDataAndHealth ==
    script = "swap" =>
        /\ \A g \in Ops("getLatestBlockhash") :
            /\ quote.data # "missing"
            /\ \E v \in Ops("getVersion") : v < g /\ calls[v].res = "ok"
        /\ (\E a \in Ops("askConfirmation") : Confirms(calls[a].res))
           /\ quote.data = "missing"
            => /\ calls[Len(calls)].op = "askConfirmation"
               /\ pc = "done"
               /\ swapResult.outcome = "throw"
               /\ swapResult.value.msg = "No transaction data in quote response"
        /\ \A v \in Ops("getVersion") :
            calls[v].res = "fail"
                => /\ v = Len(calls)
                   /\ \A i \in DOMAIN calls : calls[i].op \notin AfterHealthCheck
                   /\ pc = "done"
                   /\ swapResult.outcome = "throw"
                   /\ swapResult.value.msg = "Solana connection is not healthy"

\* C30 witness: the operator confirmed a quote without transaction data, and
\* executeSwap threw at once
C30_Witness ==
    /\ script = "swap"
    /\ swapResult.outcome = "throw"
    /\ swapResult.value.msg = "No transaction data in quote response"
    /\ calls[Len(calls)].op = "askConfirmation"

\* the requests run() sends to the quote provider
ProviderRequests == Ops("GET /connections") \cup Ops("GET /quote")

\* an address of the shape the target chain uses: the Solana shape on Solana,
\* the 0x shape on Ethereum, and one of the two on a network the script does
\* not know
WellFormedFor(chain, address) ==
    IF chain = "sol" THEN isValidSolanaAddress(address)
    ELSE IF chain = "eth" THEN isValidEthereumAddress(address)
    ELSE isValidSolanaAddress(address) \/ isValidEthereumAddress(address)

\* C31 as stated: in run (test-swap.js) a route check or quote request is
\* issued only when the destination address is well-formed for the chosen
\* target chain, whatever target chain the operator entered.
C31_AddressCheckedForEveryChain ==
    script = "swap" /\ ProviderRequests # {}
        => WellFormedFor(params.toChain, params.toAddress)

\* a strictly positive integer written in decimal digits without leading zeros
IsPositiveInteger(s) == IsDigits(s) /\ s[1] # "0"

\* C32 as stated: in run (test-swap.js) the amount sent to the route check,
\* quote and submission stages is a strictly positive integer in smallest-unit
\* representation without leading zeros; every other operator input (zero,
\* negative, fractional, exponent or hexadecimal notation, non-numeric) ends
\* the run before any provider request.
C32_AmountIsPositiveInteger ==
    script = "swap" /\ ProviderRequests # {} => IsPositiveInteger(params.fromAmount)

\* C33 as stated: in analyzeTransaction the swap used is the first SWAP action
\* of the list, the input leg is the first TOKEN_TRANSFER whose sender is that
\* swap's swapper, the output leg is the first TOKEN_TRANSFER whose receiver
\* is that swapper, each chosen independently of the other, and the two legs
\* are distinct actions whenever a comparison is computed.
C33_LegsFirstAndDistinct ==
    script = "legs" =>
        \A e \in Ops("find") :
            LET actions == calls[e].arg
                r == calls[e].res
                IsIn(a) == a.type = "TOKEN_TRANSFER"
                           /\ a.sender = actions[r.swapAction].swapper
                IsOut(a) == a.type = "TOKEN_TRANSFER"
                            /\ a.receiver = actions[r.swapAction].swapper
            IN  /\ r.swapAction = 0 <=> \A j \in DOMAIN actions : actions[j].type # "SWAP"
                /\ r.swapAction # 0
                    => /\ actions[r.swapAction].type = "SWAP"
                       /\ \A j \in 1..(r.swapAction - 1) : actions[j].type # "SWAP"
                       /\ r.inputTransfer = 0 <=> \A j \in DOMAIN actions : ~IsIn(actions[j])
                       /\ r.inputTransfer # 0
                            => /\ IsIn(actions[r.inputTransfer])
                               /\ \A j \in 1..(r.inputTransfer - 1) : ~IsIn(actions[j])
                       /\ r.outputTransfer = 0 <=> \A j \in DOMAIN actions : ~IsOut(actions[j])
                       /\ r.outputTransfer # 0
                            => /\ IsOut(actions[r.outputTransfer])
                               /\ \A j \in 1..(r.outputTransfer - 1) : ~IsOut(actions[j])
                /\ r.compared => r.inputTransfer # r.outputTransfer

\* |x - y| in units of the last place of the one of smaller exponent
UlpDistance(x, y) ==
    LET lo == IF x.e <= y.e THEN x.e ELSE y.e
        a == BigNorm(BigShiftLeft(x.m, x.e - lo))
        b == BigNorm(BigShiftLeft(y.m, y.e - lo))
    IN  IF BigCmp(a, b) >= 0 THEN BigSub(a, b) ELSE BigSub(b, a)

\* the legs that carry exactly the quoted amounts
QuotedTransfers == [input |-> quote.fromAmount, output |-> quote.toAmount]

LinesOf(lines, text) == {i \in DOMAIN lines : lines[i] = ItemLine(text)}

\* the sub-paths of the failed paths that carry the message
SubpathsWith(paths, message) ==
    {t \in (DOMAIN paths) \X (1..2) \X (1..2) :
        /\ t[2] \in DOMAIN paths[t[1]].subpaths
        /\ t[3] \in DOMAIN paths[t[1]].subpaths[t[2]]
        /\ paths[t[1]].subpaths[t[2]][t[3]].message = message}

\* C36: when the quote provider answers with error code 1002, getQuote of
\* test-swap.js logs, after the line "No available quotes", one line for every
\* entry of errors.filteredOut (its reason, in list order) and one line for
\* every sub-path of every entry of errors.failed (its message), as many
\* lines with a text as there are entries or sub-paths with it, and then
\* raises.
C36_NoReasonDropped ==
    script = "noQuote" =>
        \A c \in Ops("GET /quote") :
            LET errors == calls[c].arg
                lines == calls[c].res.lines
                filteredOut == errors.filteredOut.paths
                failed == errors.failed.paths
            IN  /\ calls[c].res.raised
                /\ lines[1] = <<"! No available quotes">>
                /\ \A r \in Reasons :
                    Cardinality(LinesOf(lines, r))
                        = Cardinality({i \in DOMAIN filteredOut : filteredOut[i].reason = r})
                /\ \A i \in DOMAIN filteredOut :
                    \A j \in DOMAIN filteredOut :
                        i < j => \E a \in LinesOf(lines, filteredOut[i].reason) :
                                    \E b \in LinesOf(lines, filteredOut[j].reason) : a < b
                /\ \A m \in {"message1", "message2"} :
                    Cardinality(LinesOf(lines, m)) = Cardinality(SubpathsWith(failed, m))

\* C36 witness: an answer with two filtered-out paths of different reasons and
\* two failed paths, one of them with two sub-path lists, has been logged
C36_Witness ==
    /\ script = "noQuote"
    /\ \E c \in Ops("GET /quote") :
        LET errors == calls[c].arg
        IN  /\ errors.present
            /\ Len(errors.filteredOut.paths) = 2
            /\ errors.filteredOut.paths[1].reason # errors.filteredOut.paths[2].reason
            /\ Len(errors.failed.paths) = 2
            /\ Len(errors.failed.paths[2].subpaths) = 2
            /\ Len(calls[c].res.lines) >= 6

\* what the test-transaction script signed or broadcast
SignedOrBroadcast == Ops("sign") \cup Ops("sendRawTransaction")

\* C37: in the test-transaction script the first call is the balance read; a
\* quote is requested only if that read returned at least amountToSwap; the
\* confirmation prompt is shown only after a quote whose payload is present
\* and deserializes; and if the balance is lower, the balance read fails, or
\* the payload is missing or malformed, nothing is signed or broadcast.
C37_BalanceAndPayloadGate ==
    script = "tx" =>
        /\ \A q \in Ops("GET /quote") :
            /\ calls[1].op = "getBalance"
            /\ calls[1].res = "ok"
            /\ calls[1].arg >= amountToSwap
            /\ Ops("getBalance") = {1}
        /\ \A a \in Ops("askConfirmation") :
            \E q \in Ops("GET /quote") :
                /\ q < a
                /\ IsOk(calls[q].res)
                /\ calls[q].res.data = "good"
                /\ \E d \in Ops("deserialize") :
                    q < d /\ d < a /\ calls[d].arg = "good" /\ calls[d].res = "ok"
        /\ \A b \in Ops("getBalance") :
            (calls[b].res = "fail" \/ (calls[b].res = "ok" /\ calls[b].arg < amountToSwap))
            => /\ SignedOrBroadcast = {}
               /\ Ops("GET /quote") = {}
               /\ pc = "done"
        /\ \A q \in Ops("GET /quote") :
            calls[q].res.data \in {"missing", "malformed"}
            => /\ SignedOrBroadcast = {}
               /\ Ops("askConfirmation") = {}
               /\ pc = "done"

\* C37 witness: the balance was just enough, the quote carried a payload that
\* deserializes, the operator confirmed and the transaction was signed and
\* broadcast
C37_Witness ==
    /\ script = "tx"
    /\ \E b \in Ops("getBalance") :
        b = 1 /\ calls[b].res = "ok" /\ calls[b].arg = amountToSwap
    /\ Ops("askConfirmation") # {}
    /\ Ops("sign") # {}
    /\ Ops("sendRawTransaction") # {}

\* the quote requests of the scenarios script that failed: getQuote raised or
\* logQuoteDetails did
FailedScenarios ==
    {i \in Ops("GET /quote") :
        getQuote_sc(calls[i].res).outcome = "throw" \/ calls[i].res.body = "noAction"}

\* C38: in every run of runTests the scenarios are attempted in list order,
\* each once, whatever the outcome of the earlier ones: the k-th quote request
\* is for scenario k, a failed request has the failure and the scenario's
\* seven parameters logged and leaves the loop running unless it was the last
\* scenario, and runTests has ended exactly when all ScenarioCount scenarios
\* were attempted, with "Test suite completed!" logged then and not before.
C38_EveryScenarioOnce ==
    script = "scenarios" =>
        /\ \A i \in Ops("GET /quote") :
            calls[i].arg = Cardinality({j \in Ops("GET /quote") : j <= i})
        /\ Count("GET /quote") <= ScenarioCount
        /\ FailedScenarios # {} => ScenarioCatchLines \subseteq log
        /\ pc = "done" <=> Count("GET /quote") = ScenarioCount
        /\ "Test suite completed!" \in log <=> Count("GET /quote") = ScenarioCount
        /\ pc \in {"init", "exited", "scGetQuote", "done"}
        /\ pc \in {"init", "exited"} => calls = <<>>

\* C38 witness: the first and the second scenario failed, the third was
\* attempted all the same and the suite completed
C38_Witness ==
    /\ script = "scenarios"
    /\ pc = "done"
    /\ Count("GET /quote") = ScenarioCount
    /\ \E i \in FailedScenarios : calls[i].arg = 1
    /\ \E i \in FailedScenarios : calls[i].arg = 2
    /\ \E i \in Ops("GET /quote") : calls[i].arg = 3
    /\ "Test suite completed!" \in log

\* the ways run() of test-swap.js can have ended
EarlyExitLines ==
    {"X Invalid Solana from address", "X Invalid Ethereum to address",
     "X Invalid Solana to address", "X Invalid amount: Must be a positive number",
     "! No connection found between tokens"}

SwapOutcomes ==
    {k \in {"early exit", "cancelled", "completed", "failed"} :
        \/ k = "early exit" /\ log \cap EarlyExitLines # {} /\ Ops("GET /quote") = {}
        \/ k = "cancelled" /\ "X Transaction cancelled by user" \in log
        \/ k = "completed" /\ "OK SWAP COMPLETED OK" \in log
        \/ k = "failed" /\ "X SWAP FAILED X" \in log}

\* run() has ended in exactly one of the four ways and the prompt interface
\* is closed
EndedInRun == pc = "done" /\ Cardinality(SwapOutcomes) = 1 /\ rlClosed

\* run() of test-swap.js has been called: the module code found a usable
\* SOL_SECRET and LI_FI_API and did not exit
RunCalled == script = "swap" /\ pc \notin {"init", "exited"}

\* C39: with every external call returning or raising, every run() of
\* test-swap.js ends, in exactly one of an early exit before quoting, a
\* cancellation at the confirmation gate, the SWAP COMPLETED banner or the
\* SWAP FAILED banner, with the prompt interface closed; the interface is
\* closed on no other path, and a run that has ended stays ended.
C39_RunTerminates ==
    /\ RunCalled ~> EndedInRun
    /\ [][script = "swap" /\ pc \in {"done", "exited"} => UNCHANGED vars]_vars
    /\ [](script = "swap" /\ pc = "done" => EndedInRun)
    /\ [](script = "swap" /\ pc # "done" => ~rlClosed)

\* C39 witness: a run went through both retry loops to the last attempt, was
\* confirmed and ended with the SWAP COMPLETED banner and the interface closed
C39_Witness ==
    /\ script = "swap"
    /\ EndedInRun
    /\ SwapOutcomes = {"completed"}
    /\ Cardinality(Ops("getLatestBlockhash")) = BlockhashRetries
    /\ Cardinality(Ops("sendRawTransaction")) = SendRetries

====
